---- MODULE Spec2Model ----
(***************************************************************************)
(* A model of the Financial-Planner engine: the rule-based health analyzer *)
(* (src/src/analyzer.py), the deterministic path simulator                 *)
(* (src/src/simulator.py), the investment simulator                        *)
(* (src/src/investment_simulator.py) and the tax calculator                *)
(* (src/src/tax_calculator.py).  Each component has a specification of its *)
(* own, in which the other components stay idle.                           *)
(*                                                                         *)
(* Numbers.  The analyzer's profiles hold whole amounts; its ratios are    *)
(* kept as exact fractions [n, d] and compared by cross-multiplication,    *)
(* which is what the float comparisons of the source decide on the         *)
(* amounts used here.  The simulator's money is kept in cents and every    *)
(* product with a rate is floored to a cent.  The investment simulator's   *)
(* money is in cents as well, its monthly returns in basis points; the     *)
(* risk score is kept in fortieths.  The tax calculator takes whole        *)
(* dollars and returns cents; its ratios are exact fractions.              *)
(***************************************************************************)
EXTENDS Integers, Sequences, FiniteSets, TLC

VARIABLES
    profile,    \* analyzer: the argument handed to analyze_profile
    result,     \* analyzer: what analyze_profile produced (return or raise)
    apc,        \* analyzer: "ready" before the call, "done" after it
    sprofile,   \* simulator: self.profile
    years,      \* simulator: self.simulation_years
    params,     \* simulator: the params handed to simulate_improved_path
    spc,        \* simulator: where the comparison of the two paths stands
    frame,      \* simulator: the locals of the running _calculate_monthly_results
    results,    \* simulator: the series the running call has built so far
    current,    \* simulator: the series returned by simulate_current_path
    improved,   \* simulator: the series returned by simulate_improved_path
    comparison, \* simulator: the summary built from the two series
    rng,        \* investment: the state of the process-wide np.random generator
    iyears,     \* investment: self.simulation_years
    ipc,        \* investment: where the running call stands
    icall,      \* investment: the arguments of simulate_investment_path
    iframe,     \* investment: the locals of the running simulate_investment_path
    iresults,   \* investment: the series the running call has built so far
    ireturned,  \* investment: what the last simulate_investment_path produced
    previous,   \* investment: the call completed before that one, and its series
    cmp,        \* investment: the locals of the running compare_risk_profiles
    uprofile,   \* investment: the argument of recommend_risk_profile
    recommended,\* investment: what recommend_risk_profile returned
    state_tax_rate, \* tax: self.state_tax_rate
    tpc,        \* tax: "ready" before a computation, "done" after it
    tcall,      \* tax: the computation called and its arguments
    tret        \* tax: what the computation returned

avars == <<profile, result, apc>>

svars == <<sprofile, years, params, spc, frame, results, current, improved,
           comparison>>

ivars == <<rng, iyears, ipc, icall, iframe, iresults, ireturned, previous,
           cmp, uprofile, recommended>>

tvars == <<state_tax_rate, tpc, tcall, tret>>

vars == <<profile, result, apc, sprofile, years, params, spc, frame, results,
          current, improved, comparison, rng, iyears, ipc, icall, iframe,
          iresults, ireturned, previous, cmp, uprofile, recommended,
          state_tax_rate, tpc, tcall, tret>>

----------------------------------------------------------------------------
(* Generic helpers *)

Max(a, b) == IF a >= b THEN a ELSE b

Min(a, b) == IF a <= b THEN a ELSE b

\* An exact fraction n/d, d > 0.
Frac(n, d) == [n |-> n, d |-> d]

FracLT(a, b) == a.n * b.d < b.n * a.d

FracGT(a, b) == a.n * b.d > b.n * a.d

Whole(k) == Frac(k, 1)

----------------------------------------------------------------------------
(* Profiles: a Python dict with string keys.  Every key of the universe    *)
(* carries a tagged value: absent, a number, or a non-numeric string.      *)

Missing == [tag |-> "absent", v |-> 0]

Num(x) == [tag |-> "num", v |-> x]

NotANumber == [tag |-> "str", v |-> 0]

NumericKeys ==
    {"monthly_income", "current_savings", "monthly_savings",
     "expense_debt_payments", "expense_housing", "primary_debt_apr",
     "total_debt"}

\* k.startswith('expense_') over the key universe
StartsWithExpense(k) == k \in {"expense_debt_payments", "expense_housing"}

AbsentType == "<absent>"

\* 'key in profile'
Has(p, k) ==
    IF k = "primary_debt_type" THEN p.debtType # AbsentType
    ELSE p.fields[k].tag # "absent"

\* bool(profile) for a dict: it has at least one key
NonEmpty(p) == \E k \in NumericKeys \cup {"primary_debt_type"} : Has(p, k)

\* profile.get(k, 0) for a numeric key
Get0(p, k) == IF Has(p, k) THEN p.fields[k] ELSE Num(0)

RECURSIVE SumOver(_, _)
SumOver(p, ks) ==
    IF ks = {} THEN 0
    ELSE LET k == CHOOSE x \in ks : TRUE
         IN  p.fields[k].v + SumOver(p, ks \ {k})

\* sum([v for k, v in profile.items() if k.startswith('expense_')])
ExpenseSum(p) ==
    SumOver(p, {k \in NumericKeys : StartsWithExpense(k) /\ Has(p, k)})

----------------------------------------------------------------------------
(* Detector results *)

NoIssue == [kind |-> "none"]

Raise(e) == [kind |-> "raise", exc |-> e]

Issue(name, sev, det, rec) ==
    [kind |-> "issue", issue |-> name, severity |-> sev,
     details |-> det, recommendation |-> rec]

\* Tenths digits k for which Python's round((2k+1)/20, 1) goes up to (k+1)/10:
\* the double nearest to the tie lies above it (or the tie is exact and k+1
\* is even).
RoundTieUp == {0, 4, 5, 6, 7, 10, 13, 15, 17, 18, 23, 24, 27, 28, 29}

\* round(a / b, 1) in tenths, for a >= 0, b > 0, a / b < 3
RoundTenthsNonNeg(a, b) ==
    LET q == (10 * a) \div b
        r == (10 * a) % b
    IN  IF 2 * r > b THEN q + 1
        ELSE IF 2 * r < b THEN q
        ELSE IF q \in RoundTieUp THEN q + 1 ELSE q

\* round(a / b, 1) in tenths, b > 0, -3 < a / b < 3: round(-x) = -round(x)
RoundTenths(a, b) ==
    IF a >= 0 THEN RoundTenthsNonNeg(a, b) ELSE 0 - RoundTenthsNonNeg(0 - a, b)

EmergencySeverityMutLE(months_tenths) ==
    IF months_tenths <= 10 THEN "high" ELSE "medium"

\* line 29, months_saved in tenths

EmergencySeverity(months_tenths) ==
    IF months_tenths < 10 THEN "high" ELSE "medium"

check_emergency_fund(p) ==
    LET monthly_expenses == ExpenseSum(p)
        current_savings  == Get0(p, "current_savings").v
        min_recommended  == monthly_expenses * 3
    IN  IF current_savings < min_recommended
        THEN LET months_saved ==
                     IF monthly_expenses > 0
                     THEN RoundTenths(current_savings, monthly_expenses)
                     ELSE 0
             IN  Issue("Insufficient emergency fund",
                       EmergencySeverity(months_saved),
                       <<"months of expenses (tenths)", months_saved>>,
                       "Increase monthly savings allocation until emergency fund reaches 3-6 months of expenses")
        ELSE NoIssue

check_debt_to_income(p) ==
    LET monthly_income == Get0(p, "monthly_income")
        debt_payments  == Get0(p, "expense_debt_payments").v
    IN  IF monthly_income.tag = "str" THEN Raise("TypeError")
        ELSE IF monthly_income.v > 0
        THEN LET dti_ratio == Frac(debt_payments * 100, monthly_income.v)
             IN  IF FracGT(dti_ratio, Whole(36))
                 THEN Issue("High debt-to-income ratio",
                            IF FracGT(dti_ratio, Whole(50)) THEN "high" ELSE "medium",
                            <<"percent of income", dti_ratio>>,
                            "Focus on paying down high-interest debt and avoid taking on new debt")
                 ELSE NoIssue
        ELSE NoIssue

check_expense_ratio(p) ==
    LET monthly_expenses == ExpenseSum(p)
        monthly_income   == Get0(p, "monthly_income")
    IN  IF monthly_income.tag = "str" THEN Raise("TypeError")
        ELSE IF monthly_income.v = 0
        THEN Issue("Missing income information", "high",
                   <<"No monthly income data provided", Whole(0)>>,
                   "Ensure accurate monthly income is entered to assess financial health")
        ELSE LET n == monthly_expenses * 100
                 d == monthly_income.v
                 \* x / y with y < 0: keep the denominator positive
                 expense_ratio == IF d > 0 THEN Frac(n, d) ELSE Frac(-n, -d)
             IN  IF FracGT(expense_ratio, Whole(90))
                 THEN Issue("Excessive expenses", "high",
                            <<"percent of income", expense_ratio>>,
                            "Review budget to identify areas for reduction, especially discretionary spending")
                 ELSE IF FracGT(expense_ratio, Whole(80))
                 THEN Issue("High expenses", "medium",
                            <<"percent of income", expense_ratio>>,
                            "Consider the 50/30/20 rule: 50% needs, 30% wants, 20% savings/debt repayment")
                 ELSE NoIssue

MonthlySavingsMutIgnoreSupplied(p, monthly_income) ==
    monthly_income - ExpenseSum(p)

\* lines 89-93: the supplied monthly_savings, else income minus expenses
MonthlySavings(p, monthly_income) ==
    IF Has(p, "monthly_savings")
    THEN p.fields["monthly_savings"].v
    ELSE monthly_income - ExpenseSum(p)

SavingsRateMutNoGuard(monthly_savings, monthly_income) ==
    Frac(monthly_savings * 100, monthly_income)

\* line 95
SavingsRate(monthly_savings, monthly_income) ==
    IF monthly_income > 0
    THEN Frac(monthly_savings * 100, monthly_income)
    ELSE Whole(0)

check_savings_rate(p) ==
    IF ~Has(p, "monthly_income") THEN Raise("KeyError")
    ELSE IF p.fields["monthly_income"].tag = "str" THEN Raise("TypeError")
    ELSE
    LET monthly_income  == p.fields["monthly_income"].v
        monthly_savings == MonthlySavings(p, monthly_income)
        savings_rate    == SavingsRate(monthly_savings, monthly_income)
    IN  IF FracLT(savings_rate, Whole(10))
        THEN Issue("Low savings rate",
                   IF FracGT(savings_rate, Whole(0)) THEN "medium" ELSE "high",
                   <<"percent savings rate", savings_rate>>,
                   "Aim to increase savings rate by reducing discretionary spending")
        ELSE NoIssue

check_high_interest_debt(p) ==
    LET primary_debt_type ==
            IF Has(p, "primary_debt_type") THEN p.debtType ELSE "None"
        primary_debt_apr == Get0(p, "primary_debt_apr").v
    IN  IF primary_debt_type # "None" /\ primary_debt_apr > 10
        THEN Issue("High-interest debt",
                   IF primary_debt_apr > 20 THEN "high" ELSE "medium",
                   <<primary_debt_type, primary_debt_apr>>,
                   "Prioritize paying off high-interest debt before focusing on other financial goals")
        ELSE NoIssue

\* self.issue_detectors, in list order
NumDetectors == 5

Detect(n, p) ==
    CASE n = 1 -> check_emergency_fund(p)
      [] n = 2 -> check_debt_to_income(p)
      [] n = 3 -> check_expense_ratio(p)
      [] n = 4 -> check_savings_rate(p)
      [] n = 5 -> check_high_interest_debt(p)

\* lines 153-154, 156 without the split by severity
ActionPlanMutIssueOrder(issues) ==
    [i \in 1..Len(issues) |-> issues[i].recommendation]

\* lines 153-156: recommendations of the high issues, then of the medium ones
ActionPlan(issues) ==
    LET high_issues   == SelectSeq(issues, LAMBDA i : i.severity = "high")
        medium_issues == SelectSeq(issues, LAMBDA i : i.severity = "medium")
        high_priority   == [k \in 1..Len(high_issues) |-> high_issues[k].recommendation]
        medium_priority == [k \in 1..Len(medium_issues) |-> medium_issues[k].recommendation]
    IN  high_priority \o medium_priority

FinancialHealthMutCountFirst(issues) ==
    IF Len(issues) = 0 THEN "Excellent"
    ELSE IF Len(issues) <= 2 THEN "Good"
    ELSE IF Len(SelectSeq(issues, LAMBDA i : i.severity = "high")) > 0 THEN "Poor"
    ELSE "Fair"

\* lines 143-150
FinancialHealth(issues) ==
    IF Len(issues) = 0 THEN "Excellent"
    ELSE IF Len(SelectSeq(issues, LAMBDA i : i.severity = "high")) > 0 THEN "Poor"
    ELSE IF Len(issues) <= 2 THEN "Good"
    ELSE "Fair"

\* The dict appended to issues: the detector's result without the model's tag
IssueDict(r) ==
    [issue |-> r.issue, severity |-> r.severity, details |-> r.details,
     recommendation |-> r.recommendation]

\* lines 137-140: the detectors in order; an exception leaves the loop
RECURSIVE RunDetectors(_, _, _)
RunDetectors(n, p, issues) ==
    IF n > NumDetectors THEN [kind |-> "issues", issues |-> issues]
    ELSE LET r == Detect(n, p)
         IN  IF r.kind = "raise" THEN r
             ELSE RunDetectors(n + 1, p,
                               IF r.kind = "issue"
                               THEN Append(issues, IssueDict(r))
                               ELSE issues)

Return(health, issues, plan) ==
    [kind |-> "return", financial_health |-> health, issues |-> issues,
     action_plan |-> plan]

\* lines 124-133
InvalidProfileResult ==
    Return("Poor",
           << [issue |-> "Invalid Profile Data", severity |-> "high",
               details |-> <<"Unable to analyze profile due to missing or invalid data", 0>>,
               recommendation |-> "Re-enter financial data and verify all inputs are correct"] >>,
           <<"Re-enter financial data", "Verify all inputs are correct">>)

analyze_profile(p) ==
    IF p.kind # "dict" \/ ~NonEmpty(p) THEN InvalidProfileResult
    ELSE LET d == RunDetectors(1, p, << >>)
         IN  IF d.kind = "raise" THEN d
             ELSE Return(FinancialHealth(d.issues), d.issues, ActionPlan(d.issues))

----------------------------------------------------------------------------
(* The analyzer's inputs.  Amounts are chosen on both sides of, and on,    *)
(* every threshold of the detectors for an income of 50: 36% and 50% of    *)
(* income (18, 25), 80% and 90% (40, 45), a 10% savings rate (5), and      *)
(* savings of 0.95, 1 and 3 months of expenses.                            *)

IncomeChoices == {Missing, NotANumber, Num(0), Num(50)}

DebtPaymentChoices == {Missing} \cup {Num(x) : x \in {0, 18, 19, 25, 26}}

HousingChoices == {Missing} \cup {Num(x) : x \in {0, 20, 22, 25, 27}}

SavingsChoices == {Missing} \cup {Num(x) : x \in {-10, 0, 19, 20, 39, 59, 60}}

MonthlySavingsChoices == {Missing} \cup {Num(x) : x \in {0, 4, 5}}

\* <<primary_debt_type, primary_debt_apr>>
DebtChoices ==
    {<<AbsentType, Missing>>, <<"None", Num(21)>>}
        \cup {<<"Credit Card", Num(x)>> : x \in {10, 11, 20, 21}}

Dict(inc, dp, hs, cs, ms, dbt) ==
    [kind |-> "dict",
     fields |-> [k \in NumericKeys |->
                    CASE k = "monthly_income" -> inc
                      [] k = "expense_debt_payments" -> dp
                      [] k = "expense_housing" -> hs
                      [] k = "current_savings" -> cs
                      [] k = "monthly_savings" -> ms
                      [] k = "primary_debt_apr" -> dbt[2]
                      [] OTHER -> Missing],
     debtType |-> dbt[1]]

NotADict(kind) ==
    [kind |-> kind, fields |-> [k \in NumericKeys |-> Missing],
     debtType |-> AbsentType]

AnalyzerInputs ==
    {NotADict("None"), NotADict("list")}
        \cup {Dict(inc, dp, hs, cs, ms, dbt) :
                inc \in IncomeChoices, dp \in DebtPaymentChoices,
                hs \in HousingChoices, cs \in SavingsChoices,
                ms \in MonthlySavingsChoices, dbt \in DebtChoices}

Pending == [kind |-> "pending"]

\* No simulator exists while the analyzer is exercised, and no analyzer call
\* is made while the simulator is
NoParams == [isNone |-> TRUE, given |-> << >>]

NoFrame == [scenario |-> "none"]

NoComparison == [kind |-> "pending"]

SimulatorIdle ==
    /\ sprofile = NotADict("None")
    /\ years = 0
    /\ params = NoParams
    /\ spc = "idle"
    /\ frame = NoFrame
    /\ results = << >>
    /\ current = << >>
    /\ improved = << >>
    /\ comparison = NoComparison

AnalyzerIdle ==
    /\ profile = NotADict("None")
    /\ result = Pending
    /\ apc = "idle"

NoCall == [op |-> "none"]

NoCompare == [active |-> FALSE]

InvestIdle ==
    /\ rng = 0
    /\ iyears = 0
    /\ ipc = "idle"
    /\ icall = NoCall
    /\ iframe = NoFrame
    /\ iresults = << >>
    /\ ireturned = Pending
    /\ previous = Pending
    /\ cmp = NoCompare
    /\ uprofile = NoCall
    /\ recommended = Pending

TaxIdle ==
    /\ state_tax_rate = 0
    /\ tpc = "idle"
    /\ tcall = NoCall
    /\ tret = Pending

AInit ==
    /\ profile \in AnalyzerInputs
    /\ result = Pending
    /\ apc = "ready"
    /\ SimulatorIdle
    /\ InvestIdle
    /\ TaxIdle

\* FinancialAnalyzer.analyze_profile(profile)
AnalyzeProfile ==
    /\ apc = "ready"
    /\ result' = analyze_profile(profile)
    /\ apc' = "done"
    /\ UNCHANGED profile
    /\ UNCHANGED <<svars, ivars, tvars>>

ANext == AnalyzeProfile

SpecAnalyzer == AInit /\ [][ANext]_vars

----------------------------------------------------------------------------
(* Claims about the health analyzer, checked under SpecAnalyzer *)

\* A well-formed profile: a mapping that holds monthly_income as a number
WellFormed(p) == p.kind = "dict" /\ p.fields["monthly_income"].tag = "num"

Analyzed == apc = "done" /\ WellFormed(profile)

HighIssues(issues) == {i \in 1..Len(issues) : issues[i].severity = "high"}

MediumIssues(issues) == {i \in 1..Len(issues) : issues[i].severity = "medium"}

IssuesNamed(issues, name) == {i \in 1..Len(issues) : issues[i].issue = name}

FieldOr0(p, k) == IF p.fields[k].tag = "num" THEN p.fields[k].v ELSE 0

TotalExpenses(p) ==
    FieldOr0(p, "expense_debt_payments") + FieldOr0(p, "expense_housing")

\* C1: for every well-formed profile analyze_profile returns, and its
\* financial_health is Excellent with no issue, Poor with at least one
\* high-severity issue, Good with 1 or 2 issues none of them high, and Fair
\* with 3 or more issues none of them high.
C1_HealthPrecedence ==
    Analyzed =>
        /\ result.kind = "return"
        /\ LET n == Len(result.issues)
               h == Cardinality(HighIssues(result.issues))
           IN  /\ (n = 0) => result.financial_health = "Excellent"
               /\ (h >= 1) => result.financial_health = "Poor"
               /\ (h = 0 /\ n \in {1, 2}) => result.financial_health = "Good"
               /\ (h = 0 /\ n >= 3) => result.financial_health = "Fair"

\* C1 witness: an analysis that ended Fair: three or more issues, none high
C1_Witness ==
    /\ Analyzed
    /\ result.kind = "return"
    /\ Len(result.issues) >= 3
    /\ HighIssues(result.issues) = {}
    /\ result.financial_health = "Fair"

\* C2 (as claimed): for every input that is not a well-formed profile,
\* analyze_profile raises nothing and returns health Poor with exactly one
\* issue, of severity high, describing the invalid profile.
C2_InvalidInputNeverRaises ==
    (apc = "done" /\ ~WellFormed(profile)) =>
        /\ result.kind = "return"
        /\ result.financial_health = "Poor"
        /\ Len(result.issues) = 1
        /\ result.issues[1].severity = "high"
        /\ result.issues[1].issue = "Invalid Profile Data"

\* C3: for every profile whose monthly_income is 0 the analysis returns (no
\* division error), the issue list holds 'Missing income information' with
\* severity high, and the savings-rate check works with a rate of 0%.
C3_ZeroIncome ==
    (Analyzed /\ profile.fields["monthly_income"].v = 0) =>
        /\ result.kind = "return"
        /\ \E i \in IssuesNamed(result.issues, "Missing income information") :
              result.issues[i].severity = "high"
        /\ \E j \in IssuesNamed(result.issues, "Low savings rate") :
              /\ result.issues[j].details[2] = Whole(0)
              /\ result.issues[j].severity = "high"

\* C3 witness: a zero-income profile with expenses and a supplied nonzero
\* monthly_savings has been analysed
C3_Witness ==
    /\ Analyzed
    /\ profile.fields["monthly_income"].v = 0
    /\ TotalExpenses(profile) > 0
    /\ profile.fields["monthly_savings"] = Num(5)
    /\ result.kind = "return"

\* C4 (as claimed): with months_saved = current_savings / monthly_expenses
\* (0 when expenses are 0), 'Insufficient emergency fund' is raised exactly
\* when months_saved < 3, with severity high exactly when months_saved < 1.
C4_EmergencyFundAsClaimed ==
    (Analyzed /\ result.kind = "return") =>
        LET expenses == TotalExpenses(profile)
            savings  == FieldOr0(profile, "current_savings")
            months_saved ==
                IF expenses = 0 THEN Whole(0) ELSE Frac(savings, expenses)
            raised == IssuesNamed(result.issues, "Insufficient emergency fund")
        IN  /\ (raised # {}) <=> FracLT(months_saved, Whole(3))
            /\ \A i \in raised :
                  (result.issues[i].severity = "high")
                      <=> FracLT(months_saved, Whole(1))

\* C4 (amended): 'Insufficient emergency fund' is raised exactly when
\* current_savings < 3 x monthly_expenses (never with zero expenses and
\* savings >= 0); months_saved is current_savings / monthly_expenses rounded
\* to one decimal (0 when expenses are 0), and the severity is high exactly
\* when that rounded value is < 1, i.e. when the ratio is at most 0.95, and
\* medium otherwise.
C4_EmergencyFund ==
    (Analyzed /\ result.kind = "return") =>
        LET expenses == TotalExpenses(profile)
            savings  == FieldOr0(profile, "current_savings")
            raised == IssuesNamed(result.issues, "Insufficient emergency fund")
        IN  /\ (raised # {}) <=> (savings < 3 * expenses)
            /\ Cardinality(raised) <= 1
            /\ \A i \in raised :
                  LET tenths == result.issues[i].details[2]
                  IN  /\ (expenses = 0) => tenths = 0
                      \* the nearest tenth: |10 x savings - tenths x expenses|
                      \* is at most half of expenses
                      /\ (expenses > 0) =>
                            /\ 2 * (10 * savings - tenths * expenses) <= expenses
                            /\ 2 * (tenths * expenses - 10 * savings) <= expenses
                      /\ (result.issues[i].severity = "high") <=> (tenths < 10)
                      /\ (tenths < 10) <=> (20 * savings <= 19 * expenses)
                      /\ result.issues[i].severity \in {"high", "medium"}

\* C4 witness: an issue raised with savings between 0.95 and 1 month of
\* expenses (rounded up to 1.0, severity medium)
C4_Witness ==
    /\ Analyzed
    /\ result.kind = "return"
    /\ 20 * FieldOr0(profile, "current_savings") > 19 * TotalExpenses(profile)
    /\ FieldOr0(profile, "current_savings") < TotalExpenses(profile)
    /\ \E i \in IssuesNamed(result.issues, "Insufficient emergency fund") :
          result.issues[i].severity = "medium"

\* The place of an issue's detector in the detector list
DetectorOf(name) ==
    CASE name = "Insufficient emergency fund" -> 1
      [] name = "High debt-to-income ratio" -> 2
      [] name \in {"Missing income information", "Excessive expenses",
                   "High expenses"} -> 3
      [] name = "Low savings rate" -> 4
      [] name = "High-interest debt" -> 5

\* The index in issues of the k-th issue among the indices in S
KthOf(S, k) == CHOOSE i \in S : Cardinality({j \in S : j <= i}) = k

C6_SavingsRate ==
    (Analyzed /\ result.kind = "return") =>
        LET income == profile.fields["monthly_income"].v
            monthly_savings ==
                IF profile.fields["monthly_savings"].tag = "num"
                THEN profile.fields["monthly_savings"].v
                ELSE income - TotalExpenses(profile)
            \* rate < 10 and rate <= 0, cleared of the division
            below10 == IF income > 0 THEN 100 * monthly_savings < 10 * income ELSE TRUE
            atMost0 == IF income > 0 THEN monthly_savings <= 0 ELSE TRUE
            raised == IssuesNamed(result.issues, "Low savings rate")
        IN  /\ (raised # {}) <=> below10
            /\ \A i \in raised :
                  /\ (result.issues[i].severity = "high") <=> atMost0
                  /\ (result.issues[i].severity = "medium") <=> ~atMost0
                  /\ income > 0 =>
                        result.issues[i].details[2] = Frac(100 * monthly_savings, income)

\* C6 witness: a profile without monthly_savings, with positive income, whose
\* expenses leave a rate strictly between 0 and 10: the issue is medium
C6_Witness ==
    /\ Analyzed
    /\ result.kind = "return"
    /\ profile.fields["monthly_income"].v > 0
    /\ profile.fields["monthly_savings"].tag = "absent"
    /\ \E i \in IssuesNamed(result.issues, "Low savings rate") :
          result.issues[i].severity = "medium"

----------------------------------------------------------------------------
(* The path simulator (src/src/simulator.py).  Money is in cents; rates    *)
(* and the improved scenario's parameters are whole percents; a date is    *)
(* the number of days after self.current_month.                            *)

CentsPerUnit == 100

ToCents(x) == x * CentsPerUnit

\* x * (pct / 100), floored to a cent
PercentOf(x, pct) == (x * pct) \div 100

ParamNames == {"income_growth", "expense_reduction", "extra_debt_payment"}

\* lines 116-120: the params simulate_improved_path supplies for None
DefaultParams ==
    [n \in ParamNames |->
        CASE n = "expense_reduction" -> 10
          [] n = "income_growth" -> 3
          [] n = "extra_debt_payment" -> 10]

\* lines 115-122: the dict handed on to _calculate_monthly_results
ParamsPassed(pr) == IF pr.isNone THEN DefaultParams ELSE pr.given

\* params.get(name, default)
ParamGet(d, name, default) == IF name \in DOMAIN d THEN d[name] ELSE default

\* line 40: params.get('income_growth', 0.02)
IncomeGrowthParam(d) == ParamGet(d, "income_growth", 2)

\* line 41: params.get('expense_reduction', 0.1)
ExpenseReductionParam(d) == ParamGet(d, "expense_reduction", 10)

\* line 42, the factor: params.get('extra_debt_payment', 0.1)
ExtraDebtPaymentParam(d) == ParamGet(d, "extra_debt_payment", 10)

\* (a mutant: current_savings is not required)
CanStartMutIncomeOnly(p) == Has(p, "monthly_income")

\* lines 25-26, 34-35: what the profile must hold for the call to start
CanStart(p) == Has(p, "monthly_income") /\ Has(p, "current_savings")

\* lines 16-54: the locals of _calculate_monthly_results before the loop
Setup(p, scenario, d) ==
    LET monthly_income   == ToCents(p.fields["monthly_income"].v)
        monthly_expenses == ToCents(ExpenseSum(p))
        current_savings  == ToCents(p.fields["current_savings"].v)
        current_debt     == ToCents(Get0(p, "total_debt").v)
    IN  IF scenario = "improved"
        THEN [scenario |-> scenario, i |-> 0,
              monthly_income |-> monthly_income,
              income_growth |-> IncomeGrowthParam(d),
              expense_reduction |-> ExpenseReductionParam(d),
              extra_debt_payment |->
                  PercentOf(monthly_income, ExtraDebtPaymentParam(d)),
              monthly_expenses |->
                  PercentOf(monthly_expenses, 100 - ExpenseReductionParam(d)),
              total_savings |-> current_savings,
              total_debt |-> current_debt]
        ELSE [scenario |-> scenario, i |-> 0,
              monthly_income |-> monthly_income,
              income_growth |-> 2,
              expense_reduction |-> 0,
              extra_debt_payment |-> 0,
              monthly_expenses |-> monthly_expenses,
              total_savings |-> current_savings,
              total_debt |-> current_debt]

\* lines 59-60
GrownIncome(f) ==
    IF f.i > 0 /\ f.i % 12 = 0
    THEN PercentOf(f.monthly_income, 100 + f.income_growth)
    ELSE f.monthly_income

\* line 78: self.profile.get('primary_debt_apr', 15), in percent
DebtApr(p) ==
    IF Has(p, "primary_debt_apr") THEN p.fields["primary_debt_apr"].v ELSE 15

\* lines 78-82: total_debt * (apr / 100 / 12)
InterestAmount(total_debt, apr) == (total_debt * apr) \div 1200

\* (a mutant: 2% of the balance, without the minimum of 25)
MinPaymentMutNoMinimum(total_debt) == PercentOf(total_debt, 2)

\* (a mutant: 1% of the balance, or 25)
MinPaymentMutOnePercent(total_debt) ==
    Max(PercentOf(total_debt, 1), ToCents(25))

\* line 85
MinPayment(total_debt) == Max(PercentOf(total_debt, 2), ToCents(25))

TotalPaymentMutSubtractsExtra(total_debt, interest_amount, extra_debt_payment) ==
    Min(MinPayment(total_debt) - extra_debt_payment,
        total_debt + interest_amount)

\* line 86
TotalPayment(total_debt, interest_amount, extra_debt_payment) ==
    Min(MinPayment(total_debt) + extra_debt_payment,
        total_debt + interest_amount)

\* lines 95-96: total_savings * (0.02 / 12)
InterestEarned(total_savings) == (total_savings * 2) \div 1200

NetWorthMutAddsDebt(total_savings, total_debt) ==
    total_savings + Max(0, total_debt)

\* line 104
NetWorth(total_savings, total_debt) == total_savings - Max(0, total_debt)

\* line 63: current_month + timedelta(days=30*i), as days after current_month
DateOf(i) == 30 * i

\* (a mutant: the expense reduction is applied again at every year boundary)
MonthPassMutCompounds(p, f) ==
    LET monthly_income == GrownIncome(f)
        monthly_expenses ==
            IF f.i > 0 /\ f.i % 12 = 0
            THEN PercentOf(f.monthly_expenses, 100 - f.expense_reduction)
            ELSE f.monthly_expenses
        this_month_savings == monthly_income - monthly_expenses
        has_debt == f.total_debt > 0
        interest_amount == InterestAmount(f.total_debt, DebtApr(p))
        total_payment ==
            TotalPayment(f.total_debt, interest_amount, f.extra_debt_payment)
        total_debt ==
            IF has_debt THEN f.total_debt + interest_amount - total_payment
            ELSE f.total_debt
        after_payment ==
            IF has_debt THEN this_month_savings - total_payment
            ELSE this_month_savings
        total_savings ==
            f.total_savings + after_payment + InterestEarned(f.total_savings)
    IN  [frame |-> [f EXCEPT !.i = f.i + 1,
                             !.monthly_income = monthly_income,
                             !.monthly_expenses = monthly_expenses,
                             !.total_savings = total_savings,
                             !.total_debt = total_debt],
         record |-> [date |-> DateOf(f.i),
                     income |-> monthly_income,
                     expenses |-> monthly_expenses,
                     savings |-> total_savings,
                     debt |-> Max(0, total_debt),
                     net_worth |-> NetWorth(total_savings, total_debt)]]

\* (a mutant: the minimum payment and the extra are taken out of the month's
\* savings in a month without debt as well)
MonthPassMutPaysWithoutDebt(p, f) ==
    LET monthly_income == GrownIncome(f)
        this_month_savings == monthly_income - f.monthly_expenses
        has_debt == f.total_debt > 0
        interest_amount == InterestAmount(f.total_debt, DebtApr(p))
        total_payment ==
            TotalPayment(f.total_debt, interest_amount, f.extra_debt_payment)
        total_debt ==
            IF has_debt THEN f.total_debt + interest_amount - total_payment
            ELSE f.total_debt
        after_payment ==
            IF has_debt THEN this_month_savings - total_payment
            ELSE this_month_savings
                    - (MinPayment(f.total_debt) + f.extra_debt_payment)
        total_savings ==
            f.total_savings + after_payment + InterestEarned(f.total_savings)
    IN  [frame |-> [f EXCEPT !.i = f.i + 1,
                             !.monthly_income = monthly_income,
                             !.total_savings = total_savings,
                             !.total_debt = total_debt],
         record |-> [date |-> DateOf(f.i),
                     income |-> monthly_income,
                     expenses |-> f.monthly_expenses,
                     savings |-> total_savings,
                     debt |-> Max(0, total_debt),
                     net_worth |-> NetWorth(total_savings, total_debt)]]

\* lines 57-105: one pass of the loop body, from frame f: the new frame and
\* the record appended to the six columns
MonthPass(p, f) ==
    LET monthly_income == GrownIncome(f)
        this_month_savings == monthly_income - f.monthly_expenses
        has_debt == f.total_debt > 0
        interest_amount == InterestAmount(f.total_debt, DebtApr(p))
        total_payment ==
            TotalPayment(f.total_debt, interest_amount, f.extra_debt_payment)
        total_debt ==
            IF has_debt THEN f.total_debt + interest_amount - total_payment
            ELSE f.total_debt
        after_payment ==
            IF has_debt THEN this_month_savings - total_payment
            ELSE this_month_savings
        total_savings ==
            f.total_savings + after_payment + InterestEarned(f.total_savings)
    IN  [frame |-> [f EXCEPT !.i = f.i + 1,
                             !.monthly_income = monthly_income,
                             !.total_savings = total_savings,
                             !.total_debt = total_debt],
         record |-> [date |-> DateOf(f.i),
                     income |-> monthly_income,
                     expenses |-> f.monthly_expenses,
                     savings |-> total_savings,
                     debt |-> Max(0, total_debt),
                     net_worth |-> NetWorth(total_savings, total_debt)]]

\* line 11
Months(y) == y * 12

SetMin(S) == CHOOSE x \in S : \A y \in S : x <= y

SetMax(S) == CHOOSE x \in S : \A y \in S : x >= y

\* series[series['debt'] <= 0]['date']
DebtFreeDates(series) ==
    {series[k].date : k \in {j \in 1..Len(series) : series[j].debt <= 0}}

DebtFreeMonthMutMax(series) == SetMax(DebtFreeDates(series))

\* lines 149-150, when (series['debt'] <= 0).any()
DebtFreeMonth(series) == SetMin(DebtFreeDates(series))

\* lines 131-135 (136-140) and 152-156: a path's entry of the comparison
PathSummary(series) ==
    LET last == series[Len(series)]
    IN  IF DebtFreeDates(series) # {}
        THEN [final_savings |-> last.savings, final_debt |-> last.debt,
              final_net_worth |-> last.net_worth,
              debt_free_date |-> DebtFreeMonth(series)]
        ELSE [final_savings |-> last.savings, final_debt |-> last.debt,
              final_net_worth |-> last.net_worth]

\* lines 129-156
Comparison(cur, imp) ==
    LET c == cur[Len(cur)]
        m == imp[Len(imp)]
    IN  [kind |-> "comparison",
         end_date |-> c.date,
         current_path |-> PathSummary(cur),
         improved_path |-> PathSummary(imp),
         difference |-> [savings_diff |-> m.savings - c.savings,
                         debt_diff |-> c.debt - m.debt,
                         net_worth_diff |-> m.net_worth - c.net_worth]]

----------------------------------------------------------------------------
(* The simulator's inputs and its operations *)

\* The longest horizon simulated, in years (simulation_years)
MaxYears == 2

SimDict(inc, hs, cs, debt, apr) ==
    [kind |-> "dict",
     fields |-> [k \in NumericKeys |->
                    CASE k = "monthly_income" -> inc
                      [] k = "expense_housing" -> hs
                      [] k = "current_savings" -> cs
                      [] k = "total_debt" -> debt
                      [] k = "primary_debt_apr" -> apr
                      [] OTHER -> Missing],
     debtType |-> AbsentType]

\* Profiles in whole currency units: no income or an income of 1000, a debt
\* paid off within months (100) or not within years (2000), an APR of 0, the
\* default, the last whole APR whose monthly interest is below the 2%
\* monthly payment rate (23) and the first at it (24)
SimProfiles ==
    {SimDict(inc, hs, cs, debt, apr) :
        inc \in {Num(0), Num(1000)},
        hs \in {Missing, Num(800)},
        cs \in {Num(0), Num(500)},
        debt \in {Missing, Num(100), Num(2000)},
        apr \in {Missing, Num(0), Num(23), Num(24)}}
      \cup {SimDict(Missing, Num(800), Num(500), Num(100), Missing),
            SimDict(Num(1000), Num(800), Missing, Num(100), Missing)}

\* A dict of params: each name absent or one of a few percents
GivenParams ==
    {[n \in D |-> IF n = "income_growth" THEN 5
                  ELSE IF n = "expense_reduction" THEN 20
                  ELSE x] :
        D \in SUBSET ParamNames, x \in {-10, 0, 25}}

ParamChoices ==
    {NoParams} \cup {[isNone |-> FALSE, given |-> g] : g \in GivenParams}

SInit ==
    /\ sprofile \in SimProfiles
    /\ years \in 1..MaxYears
    /\ params \in ParamChoices
    /\ spc = "call_current"
    /\ frame = NoFrame
    /\ results = << >>
    /\ current = << >>
    /\ improved = << >>
    /\ comparison = NoComparison
    /\ AnalyzerIdle
    /\ InvestIdle
    /\ TaxIdle

\* simulate_current_path enters _calculate_monthly_results('current', {})
BeginCurrent ==
    /\ spc = "call_current"
    /\ CanStart(sprofile)
    /\ frame' = Setup(sprofile, "current", << >>)
    /\ results' = << >>
    /\ spc' = "loop_current"
    /\ UNCHANGED <<sprofile, years, params, current, improved, comparison>>
    /\ UNCHANGED <<avars, ivars, tvars>>

\* lines 25, 34: a profile without monthly_income or current_savings
BeginRaises ==
    /\ spc = "call_current"
    /\ ~CanStart(sprofile)
    /\ spc' = "raised"
    /\ comparison' = Raise("KeyError")
    /\ UNCHANGED <<sprofile, years, params, frame, results, current, improved>>
    /\ UNCHANGED <<avars, ivars, tvars>>

\* one pass of the loop of lines 57-105, in either scenario
MonthStep ==
    /\ spc \in {"loop_current", "loop_improved"}
    /\ frame.i < Months(years)
    /\ LET pass == MonthPass(sprofile, frame)
       IN  /\ frame' = pass.frame
           /\ results' = Append(results, pass.record)
    /\ UNCHANGED <<sprofile, years, params, spc, current, improved, comparison>>
    /\ UNCHANGED <<avars, ivars, tvars>>

\* line 107, returning to simulate_current_path's caller
ReturnCurrent ==
    /\ spc = "loop_current"
    /\ frame.i = Months(years)
    /\ current' = results
    /\ spc' = "call_improved"
    /\ UNCHANGED <<sprofile, years, params, frame, results, improved, comparison>>
    /\ UNCHANGED <<avars, ivars, tvars>>

\* simulate_improved_path(params) enters
\* _calculate_monthly_results('improved', params)
BeginImproved ==
    /\ spc = "call_improved"
    /\ frame' = Setup(sprofile, "improved", ParamsPassed(params))
    /\ results' = << >>
    /\ spc' = "loop_improved"
    /\ UNCHANGED <<sprofile, years, params, current, improved, comparison>>
    /\ UNCHANGED <<avars, ivars, tvars>>

\* line 107, returning to simulate_improved_path's caller: compare_scenarios
\* when no params were given (line 127), else a caller of its own
ReturnImproved ==
    /\ spc = "loop_improved"
    /\ frame.i = Months(years)
    /\ improved' = results
    /\ spc' = IF params.isNone THEN "summary" ELSE "returned"
    /\ UNCHANGED <<sprofile, years, params, frame, results, current, comparison>>
    /\ UNCHANGED <<avars, ivars, tvars>>

\* compare_scenarios, lines 129-158
Compare ==
    /\ spc = "summary"
    /\ comparison' = Comparison(current, improved)
    /\ spc' = "done"
    /\ UNCHANGED <<sprofile, years, params, frame, results, current, improved>>
    /\ UNCHANGED <<avars, ivars, tvars>>

SNext ==
    \/ BeginCurrent
    \/ BeginRaises
    \/ MonthStep
    \/ ReturnCurrent
    \/ BeginImproved
    \/ ReturnImproved
    \/ Compare

SpecSim == SInit /\ [][SNext]_vars

----------------------------------------------------------------------------
(* Claims about the path simulator, checked under SpecSim *)

\* Both series have been returned
BothReturned == spc \in {"summary", "returned", "done"}

\* The months (1-based positions) of a series whose recorded debt is <= 0
ZeroDebtMonths(series) == {k \in 1..Len(series) : series[k].debt <= 0}

\* The first of them
FirstZeroDebtMonth(series) ==
    CHOOSE k \in ZeroDebtMonths(series) :
        \A j \in 1..(k - 1) : series[j].debt > 0

\* Whether the caller left parameter n to its default
NotSupplied(n) == params.isNone \/ n \notin DOMAIN params.given

\* The extra_debt_payment parameter in force, in percent of monthly income
ExtraParamInForce ==
    IF NotSupplied("extra_debt_payment") THEN 10
    ELSE params.given["extra_debt_payment"]

\* The improved path is debt-free no later than the current path
ImprovedNoLater ==
    /\ (ZeroDebtMonths(current) # {}) =>
          /\ ZeroDebtMonths(improved) # {}
          /\ FirstZeroDebtMonth(improved) <= FirstZeroDebtMonth(current)
    /\ (spc = "done" /\ "debt_free_date" \in DOMAIN comparison.current_path) =>
          /\ "debt_free_date" \in DOMAIN comparison.improved_path
          /\ comparison.improved_path.debt_free_date
                <= comparison.current_path.debt_free_date

\* C7 (as claimed): for every nonzero extra_debt_payment parameter, whenever
\* the current path has a debt_free_date (a first month with recorded debt
\* <= 0) the improved path has one too, no later.
C7_DebtFreeNoLaterAsClaimed ==
    (BothReturned /\ ExtraParamInForce # 0) => ImprovedNoLater

\* C7 (amended): for every positive extra_debt_payment parameter, whenever
\* the current path has a debt_free_date (a first month with recorded debt
\* <= 0) the improved path has one too, no later.
C7_DebtFreeNoLater ==
    (BothReturned /\ ExtraParamInForce > 0) => ImprovedNoLater

\* C7 witness: compare_scenarios found both paths debt-free, the improved one
\* strictly earlier
C7_Witness ==
    /\ spc = "done"
    /\ ExtraParamInForce > 0
    /\ "debt_free_date" \in DOMAIN comparison.current_path
    /\ "debt_free_date" \in DOMAIN comparison.improved_path
    /\ comparison.improved_path.debt_free_date
          < comparison.current_path.debt_free_date

PathHasDate(path, series) ==
    /\ ("debt_free_date" \in DOMAIN path) <=> (ZeroDebtMonths(series) # {})
    /\ ("debt_free_date" \in DOMAIN path) =>
          path.debt_free_date = series[FirstZeroDebtMonth(series)].date
    /\ DOMAIN path \subseteq
          {"final_savings", "final_debt", "final_net_worth", "debt_free_date"}

\* C8: compare_scenarios gives a path a debt_free_date exactly when some
\* month of its series has recorded debt <= 0, and then it is the date of
\* the first such month; otherwise the summary has no such key.
C8_DebtFreeDate ==
    (spc = "done") =>
        /\ PathHasDate(comparison.current_path, current)
        /\ PathHasDate(comparison.improved_path, improved)

\* C8 witness: a comparison in which the improved path becomes debt-free
\* after its first month and stays so, and the current path never does
C8_Witness ==
    /\ spc = "done"
    /\ "debt_free_date" \notin DOMAIN comparison.current_path
    /\ "debt_free_date" \in DOMAIN comparison.improved_path
    /\ comparison.improved_path.debt_free_date > 0
    /\ Cardinality(ZeroDebtMonths(improved)) >= 2

RecordsSound(series) ==
    \A k \in 1..Len(series) :
        /\ series[k].debt >= 0
        /\ series[k].net_worth = series[k].savings - series[k].debt

\* C9: in every monthly record of the current and of the improved series,
\* returned or still being built, the recorded debt is >= 0 and net_worth is
\* the recorded savings minus the recorded debt.
C9_RecordsSound ==
    /\ RecordsSound(results)
    /\ RecordsSound(current)
    /\ RecordsSound(improved)

\* C9 witness: both series returned, each with a month in debt; the improved
\* one also has a month without debt
C9_Witness ==
    /\ BothReturned
    /\ \E k \in 1..Len(current) : current[k].debt > 0
    /\ \E k \in 1..Len(improved) : improved[k].debt > 0
    /\ \E k \in 1..Len(improved) : improved[k].debt = 0

\* C10 (as claimed): in the improved scenario every parameter the caller
\* does not supply takes its default: income growth 3% a year, expense
\* reduction 10%, extra debt payment 10% of monthly income.
C10_ImprovedDefaults ==
    (frame.scenario = "improved") =>
        /\ NotSupplied("income_growth") => frame.income_growth = 3
        /\ NotSupplied("expense_reduction") => frame.expense_reduction = 10
        /\ NotSupplied("extra_debt_payment") =>
              10 * frame.extra_debt_payment
                  = ToCents(sprofile.fields["monthly_income"].v)

----------------------------------------------------------------------------
(* The investment simulator (src/src/investment_simulator.py).  Amounts    *)
(* are in cents, allocations in whole percents, monthly returns in basis   *)
(* points; every product is floored to a cent.                             *)

\* self.asset_classes, in the order of the dict; annual figures per mille
AssetNames == <<"savings_account", "bonds", "index_funds", "stocks", "crypto">>

asset_classes ==
    [savings_account |-> [avg_return |-> 20, volatility |-> 2],
     bonds |-> [avg_return |-> 40, volatility |-> 50],
     index_funds |-> [avg_return |-> 80, volatility |-> 150],
     stocks |-> [avg_return |-> 100, volatility |-> 200],
     crypto |-> [avg_return |-> 150, volatility |-> 500]]

\* self.risk_profiles, in the order of the dict; allocations in percent
RiskProfileNames ==
    <<"very_conservative", "conservative", "moderate", "aggressive",
      "very_aggressive">>

risk_profiles ==
    [very_conservative |->
        [savings_account |-> 70, bonds |-> 30, index_funds |-> 0,
         stocks |-> 0, crypto |-> 0],
     conservative |->
        [savings_account |-> 40, bonds |-> 40, index_funds |-> 20,
         stocks |-> 0, crypto |-> 0],
     moderate |->
        [savings_account |-> 20, bonds |-> 30, index_funds |-> 40,
         stocks |-> 10, crypto |-> 0],
     aggressive |->
        [savings_account |-> 10, bonds |-> 15, index_funds |-> 40,
         stocks |-> 30, crypto |-> 5],
     very_aggressive |->
        [savings_account |-> 5, bonds |-> 10, index_funds |-> 30,
         stocks |-> 40, crypto |-> 15]]

\* (1 + annual_return) ** (1/12) - 1, in basis points, for the five annual
\* returns of asset_classes
MonthlyReturn(annual) ==
    CASE annual = 20 -> 17
      [] annual = 40 -> 33
      [] annual = 80 -> 64
      [] annual = 100 -> 80
      [] annual = 150 -> 117

\* annual_volatility / sqrt(12), in basis points, for the five volatilities
MonthlyVolatility(annual) ==
    CASE annual = 2 -> 6
      [] annual = 50 -> 144
      [] annual = 150 -> 433
      [] annual = 200 -> 577
      [] annual = 500 -> 1443

\* np.random is one generator for the whole process.  Its state is a
\* position in a cycle of RngPeriod positions; a draw reads the deviate of
\* the position, in tenths of a standard deviation, and moves one on.
RngPeriod == 7

Deviate(s) == ((s * 15) % 41) - 20

Advance(s, n) == (s + n) % RngPeriod

\* np.random.normal(monthly_return, monthly_volatility, months): the value
\* returned when the generator stands at s
NormalDraws(s, mean, sd, n) ==
    [k \in 1..n |-> mean + (Deviate(Advance(s, k - 1)) * sd) \div 10]

\* _generate_monthly_returns(asset_class, months) with the generator at s
generate_monthly_returns(asset_class, months, s) ==
    LET asset == asset_classes[asset_class]
    IN  NormalDraws(s, MonthlyReturn(asset.avg_return),
                    MonthlyVolatility(asset.volatility), months)

\* the assets of an allocation that get a column: allocation[asset] > 0
Held(allocation) == SelectSeq(AssetNames, LAMBDA a : allocation[a] > 0)

HeldSet(allocation) == {a \in DOMAIN allocation : allocation[a] > 0}

\* the position of asset a in the sequence of held assets
HeldIndex(allocation, a) ==
    CHOOSE k \in 1..Len(Held(allocation)) : Held(allocation)[k] = a

\* lines 116-139: the locals of simulate_investment_path before its loop;
\* the return series are drawn one asset after the other from the generator
PathSetup(call, months, s) ==
    LET allocation == risk_profiles[call.risk_profile]
    IN  [asset_returns |->
            [a \in HeldSet(allocation) |->
                generate_monthly_returns(
                    a, months,
                    Advance(s, (HeldIndex(allocation, a) - 1) * months))],
         current_values |->
            [a \in HeldSet(allocation) |->
                PercentOf(ToCents(call.initial_investment), allocation[a])],
         i |-> 0]

\* the generator after the draws of PathSetup
RngAfterSetup(call, months, s) ==
    Advance(s, Len(Held(risk_profiles[call.risk_profile])) * months)

\* value * (1 + monthly_roi), the return in basis points
Grow(value, roi) == (value * (10000 + roi)) \div 10000

\* (a mutant: the month's contribution earns the month's return)
AssetStepMutContributionEarns(call, f, a) ==
    LET alloc_pct == risk_profiles[call.risk_profile][a]
        contribution == PercentOf(ToCents(call.monthly_contribution), alloc_pct)
        monthly_roi ==
            IF f.i < Len(f.asset_returns[a]) THEN f.asset_returns[a][f.i + 1]
            ELSE MonthlyReturn(asset_classes[a].avg_return)
    IN  Grow(f.current_values[a] + contribution, monthly_roi)

\* lines 147-159: one asset's value after month i
AssetStep(call, f, a) ==
    LET alloc_pct == risk_profiles[call.risk_profile][a]
        contribution == PercentOf(ToCents(call.monthly_contribution), alloc_pct)
        monthly_roi ==
            IF f.i < Len(f.asset_returns[a]) THEN f.asset_returns[a][f.i + 1]
            ELSE MonthlyReturn(asset_classes[a].avg_return)
    IN  Grow(f.current_values[a], monthly_roi) + contribution

RECURSIVE SumValues(_, _)
\* sum(current_values.values())
SumValues(values, as) ==
    IF as = {} THEN 0
    ELSE LET a == CHOOSE x \in as : TRUE
         IN  values[a] + SumValues(values, as \ {a})

\* lines 142-166: one pass of the loop: the locals after it and the row it
\* appends to results
PathMonthPass(call, f) ==
    LET values == [a \in DOMAIN f.current_values |-> AssetStep(call, f, a)]
    IN  [frame |-> [f EXCEPT !.current_values = values, !.i = f.i + 1],
         record |-> [date |-> DateOf(f.i),
                     total_value |-> SumValues(values, DOMAIN values),
                     assets |-> values]]

\* Summary figures are floats: an exact ratio n/d, or nan
Ratio(n, d) == [tag |-> "ratio", n |-> n, d |-> d]

NaN == [tag |-> "nan", n |-> 0, d |-> 0]

\* a / b for numpy floats: 0 / 0 is nan (a warning, no exception)
FloatDiv(a, b) == IF b = 0 THEN NaN ELSE Ratio(a, b)

RatioLT(x, y) == x.n * y.d < y.n * x.d

\* x * 100 for a float
TimesHundred(x) == IF x.tag = "nan" THEN NaN ELSE Ratio(100 * x.n, x.d)

\* Series.cummax() at position t
CumMax(values, t) == SetMax({values[u] : u \in 1..t})

TotalValues(series) == [t \in 1..Len(series) |-> series[t].total_value]

\* lines 192-194: (portfolio_value - rolling_max) / rolling_max
Drawdown(values) ==
    [t \in 1..Len(values) |->
        FloatDiv(values[t] - CumMax(values, t), CumMax(values, t))]

\* Series.min(): the least entry that is not nan, nan when there is none
SeriesMin(xs) ==
    LET nums == {t \in 1..Len(xs) : xs[t].tag # "nan"}
    IN  IF nums = {} THEN NaN
        ELSE xs[CHOOSE t \in nums : \A u \in nums : ~RatioLT(xs[u], xs[t])]

MaxDrawdown(series) == SeriesMin(Drawdown(TotalValues(series)))

\* line 189: ((final_value / total_invested) ** (1 / simulation_years)) - 1
\* times 100 (line 204), kept as the root it is taken of; nan when the
\* quotient is
Cagr(final_value, total_invested, simulation_years) ==
    IF total_invested = 0 THEN NaN
    ELSE [tag |-> "root", n |-> final_value, d |-> total_invested,
          root |-> simulation_years]

\* lines 185-206: the summary of one risk profile
ProfileSummary(series, monthly_contribution, initial_investment, y) ==
    LET final_value == series[Len(series)].total_value
        total_contributions == ToCents(monthly_contribution) * Months(y)
        total_invested == ToCents(initial_investment) + total_contributions
        total_growth == final_value - total_invested
    IN  [initial_investment |-> ToCents(initial_investment),
         monthly_contribution |-> ToCents(monthly_contribution),
         total_contributions |-> total_contributions,
         final_value |-> final_value,
         total_growth |-> total_growth,
         growth_percentage |->
            TimesHundred(FloatDiv(total_growth, total_invested)),
         cagr |-> Cagr(final_value, total_invested, y),
         max_drawdown |-> MaxDrawdown(series)]

----------------------------------------------------------------------------
(* recommend_risk_profile.  Ages are in tenths of a year and the score is  *)
(* kept in four-hundredths: the time score in fortieths times 5, the       *)
(* emergency score times 120, the risk score times 80.  On the ages used   *)
(* here the float comparisons of lines 245-251 decide as the exact ones    *)
(* do.                                                                     *)

ScoreScale == 400

\* a whole number of years, in tenths
Tenths(y) == 10 * y

\* a user profile: age and risk_tolerance may be absent
UserProfile(age, savings, expenses, tolerance) ==
    [age |-> age, current_savings |-> savings, expenses |-> expenses,
     risk_tolerance |-> tolerance]

\* user_profile.get('age', 35)
AgeOf(up) == IF up.age.tag = "absent" THEN Tenths(35) ELSE up.age.v

\* line 222
YearsToRetirement(up) == Max(Tenths(65) - AgeOf(up), Tenths(5))

\* (a mutant: savings of exactly three months of expenses are no fund)
HasEmergencyFundMutStrict(up) ==
    (IF up.current_savings.tag = "absent" THEN 0 ELSE up.current_savings.v)
        > up.expenses * 3

\* line 223; the expense_ fields are kept as their sum
HasEmergencyFund(up) ==
    (IF up.current_savings.tag = "absent" THEN 0 ELSE up.current_savings.v)
        >= up.expenses * 3

\* (a mutant: the time score is not capped at 10)
TimeScore40MutUncapped(up) == YearsToRetirement(up)

\* line 228, in fortieths: min(10, years_to_retirement / 4)
TimeScore40(up) == Min(40 * 10, YearsToRetirement(up))

\* line 231
EmergencyScore(up) == IF HasEmergencyFund(up) THEN 7 ELSE 3

\* (a mutant: the map scores Low highest and High lowest)
RiskScoreMutInverted(up) ==
    CASE up.risk_tolerance = "Low" -> 9
      [] up.risk_tolerance = "Medium" -> 6
      [] up.risk_tolerance = "High" -> 3
      [] OTHER -> 6

\* lines 234-239: risk_score_map.get(risk_tolerance, 6)
RiskScore(up) ==
    CASE up.risk_tolerance = "Low" -> 3
      [] up.risk_tolerance = "Medium" -> 6
      [] up.risk_tolerance = "High" -> 9
      [] OTHER -> 6

\* line 242, times ScoreScale
TotalScore(up) ==
    TimeScore40(up) * 5 + EmergencyScore(up) * 120 + RiskScore(up) * 80

\* (a mutant: a score at the cut belongs to the tier below it)
TierBelowMutLE(score, cut) == score * 10 <= cut * ScoreScale

\* lines 245-251: total_score < cut, the cut in tenths
TierBelow(score, cut) == score * 10 < cut * ScoreScale

\* lines 245-254
recommend_risk_profile(up) ==
    LET s == TotalScore(up)
    IN  IF TierBelow(s, 30) THEN "very_conservative"
        ELSE IF TierBelow(s, 50) THEN "conservative"
        ELSE IF TierBelow(s, 70) THEN "moderate"
        ELSE IF TierBelow(s, 85) THEN "aggressive"
        ELSE "very_aggressive"

----------------------------------------------------------------------------
(* The investment simulator's inputs and its operations *)

\* The longest investment horizon simulated, in years (simulation_years)
MaxInvestYears == 1

\* The five names of risk_profiles and one that is not among them
RiskProfileChoices ==
    {RiskProfileNames[k] : k \in 1..Len(RiskProfileNames)} \cup {"balanced"}

\* Amounts in whole currency units: nothing, or something
ContributionChoices == {0, 5}

InitialChoices == {0, 50}

PathCall(name, mc, init) ==
    [op |-> "simulate_investment_path", risk_profile |-> name,
     monthly_contribution |-> mc, initial_investment |-> init]

\* Ages in tenths of a year: every whole age the data input accepts, and
\* two ages between whole ones (25.8 and 28.2)
AgeChoices == {Tenths(a) : a \in 18..100} \cup {258, 282}

\* An age or none; savings short of, at and above three months of expenses;
\* the three tolerances, or none
UserProfiles ==
    {UserProfile(age, cs.savings, cs.expenses, tol) :
        age \in {Missing} \cup {Num(a) : a \in AgeChoices},
        cs \in {[savings |-> Missing, expenses |-> 100],
                [savings |-> Num(299), expenses |-> 100],
                [savings |-> Num(300), expenses |-> 100],
                [savings |-> Num(0), expenses |-> 0]},
        tol \in {"Low", "Medium", "High", AbsentType}}

IInit ==
    /\ rng \in 0..(RngPeriod - 1)
    /\ iyears \in 1..MaxInvestYears
    /\ ipc = "ready"
    /\ icall = NoCall
    /\ iframe = NoFrame
    /\ iresults = << >>
    /\ ireturned = Pending
    /\ previous = Pending
    /\ cmp = NoCompare
    /\ uprofile = NoCall
    /\ recommended = Pending
    /\ AnalyzerIdle
    /\ SimulatorIdle
    /\ TaxIdle

\* recommend_risk_profile(user_profile)
RecommendRiskProfile ==
    /\ ipc = "ready"
    /\ \E up \in UserProfiles :
          /\ uprofile' = up
          /\ recommended' = recommend_risk_profile(up)
    /\ ipc' = "recommended"
    /\ UNCHANGED <<rng, iyears, icall, iframe, iresults, ireturned, previous,
                   cmp>>
    /\ UNCHANGED <<avars, svars, tvars>>

\* a caller calls simulate_investment_path, for the first time or once more
CallPath ==
    /\ ipc \in {"ready", "returned"}
    /\ ~cmp.active
    /\ \E name \in RiskProfileChoices, mc \in ContributionChoices,
          init \in InitialChoices :
          icall' = PathCall(name, mc, init)
    /\ previous' = IF ipc = "returned"
                   THEN [kind |-> "return", call |-> icall,
                         series |-> ireturned.series]
                   ELSE previous
    /\ ireturned' = Pending
    /\ iframe' = NoFrame
    /\ iresults' = << >>
    /\ ipc' = "called"
    /\ UNCHANGED <<rng, iyears, cmp, uprofile, recommended>>
    /\ UNCHANGED <<avars, svars, tvars>>

\* compare_risk_profiles(monthly_contribution, initial_investment) starts its
\* loop over risk_profiles.keys() (lines 177-181)
CallCompare ==
    /\ ipc = "ready"
    /\ \E mc \in ContributionChoices, init \in InitialChoices :
          /\ cmp' = [active |-> TRUE, monthly_contribution |-> mc,
                     initial_investment |-> init, k |-> 1,
                     profile_results |-> << >>, summary |-> << >>]
          /\ icall' = PathCall(RiskProfileNames[1], mc, init)
    /\ ipc' = "called"
    /\ UNCHANGED <<rng, iyears, iframe, iresults, ireturned, previous,
                   uprofile, recommended>>
    /\ UNCHANGED <<avars, svars, tvars>>

\* lines 112-139: a known risk profile; the return series are drawn
PathBegin ==
    /\ ipc = "called"
    /\ icall.risk_profile \in DOMAIN risk_profiles
    /\ iframe' = PathSetup(icall, Months(iyears), rng)
    /\ rng' = RngAfterSetup(icall, Months(iyears), rng)
    /\ iresults' = << >>
    /\ ipc' = "running"
    /\ UNCHANGED <<iyears, icall, ireturned, previous, cmp, uprofile,
                   recommended>>
    /\ UNCHANGED <<avars, svars, tvars>>

\* lines 112-113: raise ValueError
PathRaises ==
    /\ ipc = "called"
    /\ icall.risk_profile \notin DOMAIN risk_profiles
    /\ ireturned' = Raise("ValueError")
    /\ ipc' = "raised"
    /\ UNCHANGED <<rng, iyears, icall, iframe, iresults, previous, cmp,
                   uprofile, recommended>>
    /\ UNCHANGED <<avars, svars, tvars>>

\* one pass of the loop of lines 142-166
PathMonth ==
    /\ ipc = "running"
    /\ iframe.i < Months(iyears)
    /\ LET pass == PathMonthPass(icall, iframe)
       IN  /\ iframe' = pass.frame
           /\ iresults' = Append(iresults, pass.record)
    /\ UNCHANGED <<rng, iyears, ipc, icall, ireturned, previous, cmp,
                   uprofile, recommended>>
    /\ UNCHANGED <<avars, svars, tvars>>

\* line 168, returning to a caller other than compare_risk_profiles
PathReturn ==
    /\ ipc = "running"
    /\ iframe.i = Months(iyears)
    /\ ~cmp.active
    /\ ireturned' = [kind |-> "return", series |-> iresults]
    /\ ipc' = "returned"
    /\ UNCHANGED <<rng, iyears, icall, iframe, iresults, previous, cmp,
                   uprofile, recommended>>
    /\ UNCHANGED <<avars, svars, tvars>>

\* line 168, returning to compare_risk_profiles, which records the series
\* and its summary (lines 182-206) and goes on to the next profile, or
\* returns (line 208)
CompareCollect ==
    /\ ipc = "running"
    /\ iframe.i = Months(iyears)
    /\ cmp.active
    /\ ireturned' = [kind |-> "return", series |-> iresults]
    /\ LET name == RiskProfileNames[cmp.k]
           stats == ProfileSummary(iresults, cmp.monthly_contribution,
                                   cmp.initial_investment, iyears)
           last == cmp.k = Len(RiskProfileNames)
       IN  /\ cmp' = [cmp EXCEPT
                        !.profile_results = Append(@, iresults),
                        !.summary = Append(@, stats),
                        !.k = IF last THEN @ ELSE @ + 1]
           /\ icall' = IF last THEN icall
                       ELSE PathCall(RiskProfileNames[cmp.k + 1],
                                     cmp.monthly_contribution,
                                     cmp.initial_investment)
           /\ ipc' = IF last THEN "compared" ELSE "called"
    /\ UNCHANGED <<rng, iyears, iframe, iresults, previous, uprofile,
                   recommended>>
    /\ UNCHANGED <<avars, svars, tvars>>

INext ==
    \/ RecommendRiskProfile
    \/ CallPath
    \/ CallCompare
    \/ PathBegin
    \/ PathRaises
    \/ PathMonth
    \/ PathReturn
    \/ CompareCollect

SpecInvest == IInit /\ [][INext]_vars

----------------------------------------------------------------------------
(* The tax calculator (src/src/tax_calculator.py).  Incomes, deductions    *)
(* and contributions are whole dollars; taxes are cents.  The income tax   *)
(* rates are whole percents, the FICA rates hundredths of a percent.       *)
(* Capital gains and the balances of the projection are cents, the taxes   *)
(* on gains thousandths of a cent.                                         *)

\* float('inf'): above every amount
Inf == 1000000000

\* self.federal_brackets: (lower, upper, rate in percent)
federal_brackets ==
    <<[lower |-> 0, upper |-> 11000, rate |-> 10],
      [lower |-> 11000, upper |-> 44725, rate |-> 12],
      [lower |-> 44725, upper |-> 95375, rate |-> 22],
      [lower |-> 95375, upper |-> 182100, rate |-> 24],
      [lower |-> 182100, upper |-> 231250, rate |-> 32],
      [lower |-> 231250, upper |-> 578125, rate |-> 35],
      [lower |-> 578125, upper |-> Inf, rate |-> 37]>>

standard_deduction == 13850

\* 6.2%, 1.45% and 0.9%, in hundredths of a percent
social_security_rate == 620

social_security_cap == 160200

medicare_rate == 145

additional_medicare_rate == 90

additional_medicare_threshold == 200000

\* self.state_tax_rate as __init__ sets it, in percent
default_state_tax_rate == 5

\* self.retirement_limits
retirement_limits ==
    [ira |-> 6500, catch_up_ira |-> 1000, roth_ira_limit |-> 153000,
     roth_ira_phaseout |-> 228000]
        @@ ("401k" :> 22500) @@ ("catch_up_401k" :> 7500)

\* an optional argument left out
None == [tag |-> "none", v |-> 0]

Returned(x) == [kind |-> "return", value |-> x]

\* dollars times a rate in hundredths of a percent, in cents
AtRate(dollars, rate) == (dollars * rate) \div 100

\* (a mutant: the bracket is taxed up to its width, whatever its lower bound)
BracketIncomeMutNoLower(taxable_income, b) ==
    Min(taxable_income, b.upper - b.lower)

\* line 88
BracketIncome(taxable_income, b) ==
    Min(taxable_income - b.lower, b.upper - b.lower)

RECURSIVE BracketLoop(_, _, _)
\* lines 86-91: the loop from bracket k on, the tax so far in cents
BracketLoop(taxable_income, k, tax) ==
    IF k > Len(federal_brackets) THEN tax
    ELSE IF taxable_income > federal_brackets[k].lower
         THEN BracketLoop(taxable_income, k + 1,
                          tax + BracketIncome(taxable_income,
                                              federal_brackets[k])
                                  * federal_brackets[k].rate)
         ELSE tax

\* lines 78-82
TaxableIncome(annual_income, deductions) ==
    Max(0, annual_income
            - (IF deductions.tag = "none" THEN standard_deduction
               ELSE deductions.v))

\* calculate_federal_income_tax(annual_income, deductions)
calculate_federal_income_tax(annual_income, deductions) ==
    BracketLoop(TaxableIncome(annual_income, deductions), 1, 0)

\* (a mutant: total_fica leaves the additional Medicare tax out)
calculate_fica_taxes_mut_basic_total(annual_income) ==
    LET ss_taxable_income == Min(annual_income, social_security_cap)
        social_security_tax == AtRate(ss_taxable_income, social_security_rate)
        basic_medicare_tax == AtRate(annual_income, medicare_rate)
        additional_medicare_tax ==
            IF annual_income > additional_medicare_threshold
            THEN AtRate(annual_income - additional_medicare_threshold,
                        additional_medicare_rate)
            ELSE 0
        total_medicare_tax == basic_medicare_tax + additional_medicare_tax
    IN  [social_security |-> social_security_tax,
         medicare |-> total_medicare_tax,
         total_fica |-> social_security_tax + basic_medicare_tax]

\* calculate_fica_taxes(annual_income)
calculate_fica_taxes(annual_income) ==
    LET ss_taxable_income == Min(annual_income, social_security_cap)
        social_security_tax == AtRate(ss_taxable_income, social_security_rate)
        basic_medicare_tax == AtRate(annual_income, medicare_rate)
        additional_medicare_tax ==
            IF annual_income > additional_medicare_threshold
            THEN AtRate(annual_income - additional_medicare_threshold,
                        additional_medicare_rate)
            ELSE 0
        total_medicare_tax == basic_medicare_tax + additional_medicare_tax
    IN  [social_security |-> social_security_tax,
         medicare |-> total_medicare_tax,
         total_fica |-> social_security_tax + total_medicare_tax]

\* calculate_state_income_tax(annual_income, deductions), the rate in percent
calculate_state_income_tax(annual_income, deductions, rate) ==
    Max(0, annual_income - deductions) * rate

FracLE(a, b) == IF a.d = b.d THEN a.n <= b.n ELSE a.n * b.d <= b.n * a.d

FracEQ(a, b) == IF a.d = b.d THEN a.n = b.n ELSE a.n * b.d = b.n * a.d

\* (a mutant: the share allowed grows with the income over the limit)
check_roth_contribution_limit_mut_rising(annual_income, proposed_contribution) ==
    LET limits == retirement_limits
    IN  IF annual_income <= limits.roth_ira_limit
        THEN Whole(Min(proposed_contribution, limits.ira))
        ELSE IF annual_income < limits.roth_ira_phaseout
        THEN LET phase_out_range ==
                     limits.roth_ira_phaseout - limits.roth_ira_limit
                 allowed ==
                     Frac((annual_income - limits.roth_ira_limit) * limits.ira,
                          phase_out_range)
             IN  IF FracLE(Whole(proposed_contribution), allowed)
                 THEN Whole(proposed_contribution)
                 ELSE allowed
        ELSE Whole(0)

\* _check_roth_contribution_limit(annual_income, proposed_contribution), in
\* dollars
check_roth_contribution_limit(annual_income, proposed_contribution) ==
    LET limits == retirement_limits
    IN  IF annual_income <= limits.roth_ira_limit
        THEN Whole(Min(proposed_contribution, limits.ira))
        ELSE IF annual_income < limits.roth_ira_phaseout
        THEN LET phase_out_range ==
                     limits.roth_ira_phaseout - limits.roth_ira_limit
                 allowed ==
                     Frac((limits.roth_ira_phaseout - annual_income)
                              * limits.ira,
                          phase_out_range)
             IN  IF FracLE(Whole(proposed_contribution), allowed)
                 THEN Whole(proposed_contribution)
                 ELSE allowed
        ELSE Whole(0)

\* retirement_account_type.lower() == "roth"
IsRoth(retirement_account_type) == retirement_account_type \in {"roth", "Roth"}

\* calculate_retirement_contribution_tax_savings(annual_income, contribution,
\* retirement_account_type)
calculate_retirement_contribution_tax_savings(annual_income, contribution, retirement_account_type) ==
    IF IsRoth(retirement_account_type)
    THEN [current_year_tax_savings |-> 0,
          contribution_allowed |->
              check_roth_contribution_limit(annual_income, contribution)]
    ELSE LET tax_without_contribution ==
                 calculate_federal_income_tax(annual_income, None)
             tax_with_contribution ==
                 calculate_federal_income_tax(annual_income - contribution,
                                              None)
             tax_savings == tax_without_contribution - tax_with_contribution
         IN  [current_year_tax_savings |-> tax_savings,
              effective_contribution_cost |->
                  ToCents(contribution) - tax_savings,
              tax_savings_rate |->
                  IF contribution > 0
                  THEN Frac(tax_savings, ToCents(contribution))
                  ELSE Whole(0)]

\* calculate_monthly_take_home_pay(annual_income, retirement_contribution,
\* other_pretax_deductions), the state rate in percent
calculate_monthly_take_home_pay(annual_income, retirement_contribution, other_pretax_deductions, rate) ==
    LET pretax_deductions == retirement_contribution + other_pretax_deductions
        taxable_income == annual_income - pretax_deductions
        federal_tax == calculate_federal_income_tax(taxable_income, None)
        fica_taxes == calculate_fica_taxes(annual_income)
        state_tax == calculate_state_income_tax(taxable_income, 0, rate)
        annual_take_home ==
            ToCents(annual_income) - federal_tax - fica_taxes.total_fica
                - state_tax - ToCents(pretax_deductions)
        total_tax == federal_tax + fica_taxes.total_fica + state_tax
    IN  [annual_gross_income |-> ToCents(annual_income),
         pretax_deductions |-> ToCents(pretax_deductions),
         federal_income_tax |-> federal_tax,
         social_security_tax |-> fica_taxes.social_security,
         medicare_tax |-> fica_taxes.medicare,
         state_income_tax |-> state_tax,
         total_tax |-> total_tax,
         effective_tax_rate |->
            IF annual_income > 0
            THEN Frac(total_tax, ToCents(annual_income))
            ELSE Whole(0),
         annual_take_home |-> annual_take_home,
         monthly_take_home |-> Frac(annual_take_home, 12)]

\* self.capital_gains_brackets: (lower, upper, rate in percent)
capital_gains_brackets ==
    <<[lower |-> 0, upper |-> 44625, rate |-> 0],
      [lower |-> 44625, upper |-> 492300, rate |-> 15],
      [lower |-> 492300, upper |-> Inf, rate |-> 20]>>

\* self.niit_rate, 3.8%, in tenths of a percent
niit_rate == 38

niit_threshold == 200000

RECURSIVE ApplicableRateMutAtLower(_, _, _)
\* (a mutant: an income at a bracket's lower bound is inside the bracket)
ApplicableRateMutAtLower(annual_income, k, applicable_rate) ==
    IF k > Len(capital_gains_brackets) THEN applicable_rate
    ELSE IF annual_income >= capital_gains_brackets[k].lower
         THEN ApplicableRateMutAtLower(annual_income, k + 1,
                                       capital_gains_brackets[k].rate)
         ELSE applicable_rate

RECURSIVE ApplicableRate(_, _, _)
\* lines 136-141: the loop from bracket k on, with its break
ApplicableRate(annual_income, k, applicable_rate) ==
    IF k > Len(capital_gains_brackets) THEN applicable_rate
    ELSE IF annual_income > capital_gains_brackets[k].lower
         THEN ApplicableRate(annual_income, k + 1,
                             capital_gains_brackets[k].rate)
         ELSE applicable_rate

\* calculate_capital_gains_tax(capital_gains, annual_income): the gains in
\* cents, the income in dollars, the tax in thousandths of a cent
calculate_capital_gains_tax(capital_gains, annual_income) ==
    LET applicable_rate == ApplicableRate(annual_income, 1, 0)
        capital_gains_tax == capital_gains * applicable_rate * 10
        niit == IF annual_income > niit_threshold
                THEN capital_gains * niit_rate
                ELSE 0
    IN  capital_gains_tax + niit

\* calculate_tax_impact_on_investments(investment_growth, dividend_income,
\* annual_income, is_retirement_account): the amounts in cents, the taxes
\* in thousandths of a cent
calculate_tax_impact_on_investments(investment_growth, dividend_income, annual_income, is_retirement_account) ==
    IF is_retirement_account
    THEN [taxable_amount |-> 0,
          tax_due |-> 0,
          effective_tax_rate |-> Whole(0),
          after_tax_value |-> (investment_growth + dividend_income) * 1000]
    ELSE LET taxable_dividends == dividend_income
             capital_gains_tax ==
                 calculate_capital_gains_tax(investment_growth, annual_income)
             dividend_tax ==
                 calculate_capital_gains_tax(taxable_dividends, annual_income)
             total_tax == capital_gains_tax + dividend_tax
             total_gain == investment_growth + dividend_income
         IN  [taxable_amount |-> total_gain,
              tax_due |-> total_tax,
              effective_tax_rate |->
                  IF total_gain > 0 THEN Frac(total_tax, total_gain * 1000)
                  ELSE Whole(0),
              after_tax_value |-> total_gain * 1000 - total_tax]

\* (a mutant: the tax due is not taken out of the taxable account)
TaxableAfterYearMutUntaxed(taxable_investment, taxable_investment_growth, taxable_investment_contribution, tax_due) ==
    taxable_investment + taxable_investment_growth
        + taxable_investment_contribution

\* lines 376-381, in cents, floored to a cent; the tax due comes in
\* thousandths of a cent
TaxableAfterYear(taxable_investment, taxable_investment_growth, taxable_investment_contribution, tax_due) ==
    taxable_investment + taxable_investment_growth
        + taxable_investment_contribution + ((0 - tax_due) \div 1000)

\* lines 340-342: the locals of simulate_tax_impact_on_financial_path before
\* its loop; the income in dollars, the balances in cents
TaxPathSetup(annual_income, initial_investment) ==
    [current_income |-> annual_income,
     taxable_investment |-> ToCents(initial_investment),
     tax_advantaged |-> 0]

\* lines 345-393: one pass of the loop, for year `year`: the locals after it
\* and the row it appends.  The rates are whole percents.
TaxYearPass(f, year, yearly_income_growth, retirement_contribution_percent, investment_return_rate, rate) ==
    LET retirement_contribution ==
            PercentOf(f.current_income, retirement_contribution_percent)
        take_home_details ==
            calculate_monthly_take_home_pay(f.current_income,
                                            retirement_contribution, 0, rate)
        annual_savings == (take_home_details.annual_take_home * 2) \div 10
        taxable_investment_contribution == annual_savings \div 2
        taxable_investment_growth ==
            PercentOf(f.taxable_investment, investment_return_rate)
        dividend_income == PercentOf(f.taxable_investment, 2)
        tax_impact ==
            calculate_tax_impact_on_investments(
                taxable_investment_growth - dividend_income, dividend_income,
                f.current_income, FALSE)
        taxable_investment ==
            TaxableAfterYear(f.taxable_investment, taxable_investment_growth,
                             taxable_investment_contribution,
                             tax_impact.tax_due)
        tax_advantaged_growth ==
            PercentOf(f.tax_advantaged, investment_return_rate)
        tax_advantaged ==
            f.tax_advantaged + tax_advantaged_growth
                + ToCents(retirement_contribution)
    IN  [frame |-> [current_income |->
                        PercentOf(f.current_income, 100 + yearly_income_growth),
                    taxable_investment |-> taxable_investment,
                    tax_advantaged |-> tax_advantaged],
         row |-> [year |-> year,
                  annual_income |-> ToCents(f.current_income),
                  retirement_contribution |-> ToCents(retirement_contribution),
                  federal_tax |-> take_home_details.federal_income_tax,
                  fica_tax |-> take_home_details.social_security_tax
                                 + take_home_details.medicare_tax,
                  state_tax |-> take_home_details.state_income_tax,
                  take_home_pay |-> take_home_details.annual_take_home,
                  taxable_investment_value |-> taxable_investment,
                  tax_advantaged_value |-> tax_advantaged,
                  taxes_on_investments |-> tax_impact.tax_due,
                  total_net_worth |-> taxable_investment + tax_advantaged]]

RECURSIVE TaxPathLoop(_, _, _, _, _)
\* lines 344-393: the loop from year `year` on, with the rows so far
TaxPathLoop(f, year, call, rate, rows) ==
    IF year > call.years THEN rows
    ELSE LET pass == TaxYearPass(f, year, call.yearly_income_growth,
                                 call.retirement_contribution_percent,
                                 call.investment_return_rate, rate)
         IN  TaxPathLoop(pass.frame, year + 1, call, rate,
                         Append(rows, pass.row))

\* simulate_tax_impact_on_financial_path(annual_income, yearly_income_growth,
\* retirement_contribution_percent, years, investment_return_rate,
\* initial_investment): the rows of the DataFrame returned
simulate_tax_impact_on_financial_path(call, rate) ==
    TaxPathLoop(TaxPathSetup(call.annual_income, call.initial_investment),
                1, call, rate, << >>)

----------------------------------------------------------------------------
(* The tax calculator's inputs and its operations *)

\* Incomes in whole dollars: a negative one, none, and incomes that put the
\* taxable income at and between the bounds of the brackets
FederalIncomeChoices ==
    {-1000, 0, 11000, 13850, 24850, 44725, 58575, 109225, 195950, 245100,
     591975, 600000}

DeductionChoices == {None, Num(0), Num(20000)}

\* Incomes whose FICA and state taxes are whole cents
PayrollIncomeChoices == {-1000, 0, 50000, 160200, 200000, 250000}

\* Incomes below, at and above the Roth limit and the phase-out ceiling
RetirementIncomeChoices ==
    {-1000, 0, 100000, 153000, 171750, 190500, 209250, 228000, 250000}

ContributionAmounts == {-500, 0, 3000, 3250, 6500, 7000}

AccountTypes == {"traditional", "roth", "Roth"}

StateRateChoices == {0, 5, 7}

TInit ==
    /\ state_tax_rate = default_state_tax_rate
    /\ tpc = "ready"
    /\ tcall = NoCall
    /\ tret = Pending
    /\ AnalyzerIdle
    /\ SimulatorIdle
    /\ InvestIdle

\* set_state_tax_rate(rate)
SetStateTaxRate ==
    /\ tpc = "ready"
    /\ \E rate \in StateRateChoices : state_tax_rate' = rate
    /\ UNCHANGED <<tpc, tcall, tret>>
    /\ UNCHANGED <<avars, svars, ivars>>

\* calculate_federal_income_tax(annual_income, deductions)
CalculateFederalIncomeTax ==
    /\ tpc = "ready"
    /\ \E income \in FederalIncomeChoices, ded \in DeductionChoices :
          /\ tcall' = [op |-> "calculate_federal_income_tax",
                       annual_income |-> income, deductions |-> ded]
          /\ tret' = Returned(calculate_federal_income_tax(income, ded))
    /\ tpc' = "done"
    /\ UNCHANGED state_tax_rate
    /\ UNCHANGED <<avars, svars, ivars>>

\* calculate_fica_taxes(annual_income)
CalculateFicaTaxes ==
    /\ tpc = "ready"
    /\ \E income \in PayrollIncomeChoices :
          /\ tcall' = [op |-> "calculate_fica_taxes", annual_income |-> income]
          /\ tret' = Returned(calculate_fica_taxes(income))
    /\ tpc' = "done"
    /\ UNCHANGED state_tax_rate
    /\ UNCHANGED <<avars, svars, ivars>>

\* calculate_state_income_tax(annual_income, deductions)
CalculateStateIncomeTax ==
    /\ tpc = "ready"
    /\ \E income \in PayrollIncomeChoices, ded \in {0, 10000} :
          /\ tcall' = [op |-> "calculate_state_income_tax",
                       annual_income |-> income, deductions |-> ded]
          /\ tret' = Returned(calculate_state_income_tax(income, ded,
                                                         state_tax_rate))
    /\ tpc' = "done"
    /\ UNCHANGED state_tax_rate
    /\ UNCHANGED <<avars, svars, ivars>>

\* calculate_retirement_contribution_tax_savings(annual_income, contribution,
\* retirement_account_type)
CalculateRetirementContributionTaxSavings ==
    /\ tpc = "ready"
    /\ \E income \in RetirementIncomeChoices, c \in ContributionAmounts,
          type \in AccountTypes :
          /\ tcall' = [op |-> "calculate_retirement_contribution_tax_savings",
                       annual_income |-> income, contribution |-> c,
                       retirement_account_type |-> type]
          /\ tret' = Returned(calculate_retirement_contribution_tax_savings(
                                  income, c, type))
    /\ tpc' = "done"
    /\ UNCHANGED state_tax_rate
    /\ UNCHANGED <<avars, svars, ivars>>

\* calculate_monthly_take_home_pay(annual_income, retirement_contribution,
\* other_pretax_deductions)
CalculateMonthlyTakeHomePay ==
    /\ tpc = "ready"
    /\ \E income \in PayrollIncomeChoices, rc \in {-500, 0, 5000},
          other \in {0, 2000} :
          /\ tcall' = [op |-> "calculate_monthly_take_home_pay",
                       annual_income |-> income,
                       retirement_contribution |-> rc,
                       other_pretax_deductions |-> other]
          /\ tret' = Returned(calculate_monthly_take_home_pay(
                                  income, rc, other, state_tax_rate))
    /\ tpc' = "done"
    /\ UNCHANGED state_tax_rate
    /\ UNCHANGED <<avars, svars, ivars>>

\* Ordinary incomes below, at and just above the bounds of the capital-gains
\* brackets and the NIIT threshold
GainsIncomeChoices ==
    {-1000, 0, 1, 44625, 44626, 200000, 200001, 492300, 492301, 600000}

\* Gains in dollars
GainsChoices == {-1000, 0, 1000, 12345}

\* calculate_capital_gains_tax(capital_gains, annual_income)
CalculateCapitalGainsTax ==
    /\ tpc = "ready"
    /\ \E gains \in GainsChoices, income \in GainsIncomeChoices :
          /\ tcall' = [op |-> "calculate_capital_gains_tax",
                       capital_gains |-> gains, annual_income |-> income]
          /\ tret' = Returned(calculate_capital_gains_tax(ToCents(gains),
                                                          income))
    /\ tpc' = "done"
    /\ UNCHANGED state_tax_rate
    /\ UNCHANGED <<avars, svars, ivars>>

\* The longest tax projection, in years
MaxTaxYears == 3

\* Starting incomes that stay whole dollars as they grow: one that crosses
\* the first capital-gains bound as it grows, one between the bounds and
\* one above the NIIT threshold
ProjectionIncomeChoices == {40000, 50000, 250000}

\* Income growth, contribution share and investment return in whole
\* percents; a return below the 2% taken as dividends is among them
ProjectionGrowthChoices == {0, 10}

ProjectionContributionChoices == {0, 10}

ProjectionReturnChoices == {1, 7}

ProjectionInitialChoices == {0, 10000}

\* simulate_tax_impact_on_financial_path(annual_income, ...)
SimulateTaxImpactOnFinancialPath ==
    /\ tpc = "ready"
    /\ \E income \in ProjectionIncomeChoices,
          growth \in ProjectionGrowthChoices,
          pct \in ProjectionContributionChoices,
          y \in 0..MaxTaxYears,
          ret \in ProjectionReturnChoices,
          init \in ProjectionInitialChoices :
          /\ tcall' = [op |-> "simulate_tax_impact_on_financial_path",
                       annual_income |-> income,
                       yearly_income_growth |-> growth,
                       retirement_contribution_percent |-> pct,
                       years |-> y,
                       investment_return_rate |-> ret,
                       initial_investment |-> init]
          /\ tret' = Returned(simulate_tax_impact_on_financial_path(
                                  tcall', state_tax_rate))
    /\ tpc' = "done"
    /\ UNCHANGED state_tax_rate
    /\ UNCHANGED <<avars, svars, ivars>>

TNext ==
    \/ SetStateTaxRate
    \/ CalculateFederalIncomeTax
    \/ CalculateFicaTaxes
    \/ CalculateStateIncomeTax
    \/ CalculateRetirementContributionTaxSavings
    \/ CalculateMonthlyTakeHomePay
    \/ CalculateCapitalGainsTax
    \/ SimulateTaxImpactOnFinancialPath

SpecTax == TInit /\ [][TNext]_vars

----------------------------------------------------------------------------
(* Claims about the two simulators *)

\* Either simulator at work, the other idle
SimulatorsInit == SInit \/ IInit

SimulatorsNext == SNext \/ INext

SpecSimulators == SimulatorsInit /\ [][SimulatorsNext]_vars

\* The profile lacks a field the path simulator requires
LacksRequired(p) ==
    \/ p.fields["monthly_income"].tag = "absent"
    \/ p.fields["current_savings"].tag = "absent"

\* The name handed to simulate_investment_path is none of the five
UnknownRiskProfile ==
    /\ icall # NoCall
    /\ icall.risk_profile \notin
          {"very_conservative", "conservative", "moderate", "aggressive",
           "very_aggressive"}

\* C11: on invalid input both simulators fail with an error and return no
\* series, partial or otherwise: the path simulator when the profile lacks
\* monthly_income or current_savings, simulate_investment_path when the
\* risk profile name is not one of the five.
C11_InvalidInputFails ==
    /\ (spc \notin {"idle", "call_current"} /\ LacksRequired(sprofile)) =>
          /\ spc = "raised"
          /\ comparison = Raise("KeyError")
          /\ results = << >>
          /\ current = << >>
          /\ improved = << >>
    /\ (ipc \notin {"idle", "ready", "recommended", "called"}
            /\ UnknownRiskProfile) =>
          /\ ipc = "raised"
          /\ ireturned = Raise("ValueError")
          /\ iresults = << >>
          /\ iframe = NoFrame

\* C11 witness: simulate_investment_path raised on a name it does not know
C11_Witness ==
    /\ ipc = "raised"
    /\ UnknownRiskProfile
    /\ ireturned = Raise("ValueError")

----------------------------------------------------------------------------
(* Claims about recommend_risk_profile *)

\* recommend_risk_profile has returned for a profile that states an age in
\* 18..100, its savings and one of the three tolerances
Recommended ==
    /\ ipc = "recommended"
    /\ uprofile.age.tag = "num"
    /\ uprofile.age.v \in Tenths(18)..Tenths(100)
    /\ uprofile.current_savings.tag = "num"
    /\ uprofile.risk_tolerance \in {"Low", "Medium", "High"}

\* 400 times the weighted score 0.5 x min(10, max(65 - age, 5) / 4)
\* + 0.3 x (7 or 3) + 0.2 x (3, 6 or 9), the age in tenths of a year
WeightedScore400(age, savings, expenses, tolerance) ==
    Min(2000, 5 * Max(650 - age, 50))
        + 120 * (IF savings >= 3 * expenses THEN 7 ELSE 3)
        + 80 * (CASE tolerance = "Low" -> 3
                 [] tolerance = "Medium" -> 6
                 [] tolerance = "High" -> 9)

ScoreOf(up) ==
    WeightedScore400(up.age.v, up.current_savings.v, up.expenses,
                    up.risk_tolerance)

\* C12: for every age in 18..100 recommend_risk_profile returns the tier of
\* the weighted score s: very_conservative for s < 3, conservative for
\* 3 < s < 5, moderate for 5 < s < 7, aggressive for 7 < s < 8.5 and
\* very_aggressive for s > 8.5.
C12_TierOfScore ==
    Recommended =>
        LET s == ScoreOf(uprofile)
        IN  /\ (s < 1200) => recommended = "very_conservative"
            /\ (1200 < s /\ s < 2000) => recommended = "conservative"
            /\ (2000 < s /\ s < 2800) => recommended = "moderate"
            /\ (2800 < s /\ s < 3400) => recommended = "aggressive"
            /\ (s > 3400) => recommended = "very_aggressive"

\* C12 witness: a score above 8.5 (age 18, an emergency fund, High) and the
\* top tier recommended
C12_Witness ==
    /\ Recommended
    /\ ScoreOf(uprofile) > 3400
    /\ recommended = "very_aggressive"

\* The tiers in their order, most conservative first
TierRank(t) ==
    CHOOSE k \in 1..Len(RiskProfileNames) : RiskProfileNames[k] = t

\* The cut points 3, 5, 7 and 8.5, times 400, each with the tier below it
\* and the tier above it
CutPoints ==
    {[cut |-> 1200, lower |-> "very_conservative", upper |-> "conservative"],
     [cut |-> 2000, lower |-> "conservative", upper |-> "moderate"],
     [cut |-> 2800, lower |-> "moderate", upper |-> "aggressive"],
     [cut |-> 3400, lower |-> "aggressive", upper |-> "very_aggressive"]}

\* C13 (as claimed): when the weighted score is exactly a cut point (3, 5,
\* 7 or 8.5) the profile returned is the one of the lower bracket, the more
\* conservative of the two tiers that meet there.
C13_CutPointLowerBracket ==
    Recommended =>
        \A c \in CutPoints :
            (ScoreOf(uprofile) = c.cut) => recommended = c.lower

\* C13 (amended): when the weighted score is exactly a cut point (3, 5, 7
\* or 8.5) the profile returned is the one of the upper bracket, the less
\* conservative of the two tiers that meet there.
C13_CutPointUpperBracket ==
    Recommended =>
        \A c \in CutPoints :
            (ScoreOf(uprofile) = c.cut) => recommended = c.upper

\* C13 witness: a score of exactly 8.5 (age 28.2, an emergency fund, High)
\* and very_aggressive returned
C13_Witness ==
    /\ Recommended
    /\ ScoreOf(uprofile) = 3400
    /\ recommended = "very_aggressive"

\* The tier recommended for the profile at hand were its tolerance tol
TierAt(tol) ==
    TierRank(recommend_risk_profile([uprofile EXCEPT !.risk_tolerance = tol]))

\* C14: with age, current_savings and expenses held fixed, the tier returned
\* by recommend_risk_profile is non-decreasing in risk tolerance:
\* tier(Low) <= tier(Medium) <= tier(High).
C14_MonotoneInTolerance ==
    Recommended =>
        /\ TierRank(recommended) = TierAt(uprofile.risk_tolerance)
        /\ TierAt("Low") <= TierAt("Medium")
        /\ TierAt("Medium") <= TierAt("High")

\* C14 witness: a profile of High tolerance whose tier is above the one it
\* would get with Low tolerance
C14_Witness ==
    /\ Recommended
    /\ uprofile.risk_tolerance = "High"
    /\ TierRank(recommended) > TierAt("Low")

----------------------------------------------------------------------------
(* Claims about compare_risk_profiles *)

\* The risk profiles compare_risk_profiles has summarised so far
Summarised == IF cmp.active THEN 1..Len(cmp.summary) ELSE {}

\* The total value of a series never falls below an earlier value
NeverFalls(series) ==
    \A t \in 1..Len(series) : \A u \in 1..t :
        series[t].total_value >= series[u].total_value

\* C15 (as claimed): for every risk profile and every sequence of monthly
\* returns the max_drawdown reported by compare_risk_profiles is <= 0, and
\* it is 0 when the total value never falls below an earlier value.
C15_MaxDrawdown ==
    \A k \in Summarised :
        LET md == cmp.summary[k].max_drawdown
        IN  /\ md.tag = "ratio"
            /\ md.n <= 0
            /\ NeverFalls(cmp.profile_results[k]) => md.n = 0

\* The same, for portfolios that are worth something in their first month
DrawdownOfPositiveIsSound ==
    \A k \in Summarised :
        (cmp.profile_results[k][1].total_value > 0) =>
            LET md == cmp.summary[k].max_drawdown
            IN  /\ md.tag = "ratio"
                /\ md.n <= 0
                /\ NeverFalls(cmp.profile_results[k]) <=> md.n = 0

\* C16 (as claimed): an investment simulation's series is a function of its
\* arguments and its own seed only: a run with the arguments of the run
\* before it yields the series of the run before it, whatever was simulated
\* earlier, because the engine owns no mutable global state.
C16_SeriesDependsOnArgumentsOnly ==
    (ipc = "returned" /\ previous.kind = "return" /\ previous.call = icall)
        => ireturned.series = previous.series

----------------------------------------------------------------------------
(* Claims about the engine as a whole: any one of the four components at   *)
(* work, the others idle                                                   *)

EngineInit == AInit \/ SInit \/ IInit \/ TInit

EngineNext == ANext \/ SNext \/ INext \/ TNext

SpecEngine == EngineInit /\ [][EngineNext]_vars

\* A summary figure that is a number, and 0
IsZero(x) ==
    \/ x.tag = "ratio" /\ x.n = 0
    \/ x.tag = "root" /\ x.n = x.d

TaxDone(op) == tpc = "done" /\ tcall.op = op

\* The ratios of the analyzer and of the tax calculator yield 0 when their
\* denominator is 0
GuardedRatiosYieldZero ==
    /\ (Analyzed /\ TotalExpenses(profile) = 0) =>
          /\ result.kind = "return"
          /\ \A i \in IssuesNamed(result.issues, "Insufficient emergency fund") :
                result.issues[i].details[2] = 0
    /\ (Analyzed /\ profile.fields["monthly_income"].v = 0) =>
          /\ result.kind = "return"
          /\ IssuesNamed(result.issues, "High debt-to-income ratio") = {}
          /\ \A j \in IssuesNamed(result.issues, "Low savings rate") :
                result.issues[j].details[2] = Whole(0)
    /\ (TaxDone("calculate_monthly_take_home_pay") /\ tcall.annual_income = 0)
          => tret.value.effective_tax_rate = Whole(0)
    /\ (/\ TaxDone("calculate_retirement_contribution_tax_savings")
        /\ ~IsRoth(tcall.retirement_account_type)
        /\ tcall.contribution = 0)
          => tret.value.tax_savings_rate = Whole(0)

\* C17 (as claimed): every ratio the engine computes yields 0 instead of
\* failing or producing an undefined value when its denominator is 0:
\* months_saved with zero expenses, debt-to-income and savings rate with
\* zero income, effective tax rate with zero income, tax savings rate with
\* zero contribution, and CAGR and growth percentage when initial investment
\* plus total contributions is 0.
C17_ZeroDenominatorYieldsZero ==
    /\ GuardedRatiosYieldZero
    /\ \A k \in Summarised :
          LET s == cmp.summary[k]
          IN  (s.initial_investment + s.total_contributions = 0) =>
                  /\ IsZero(s.cagr)
                  /\ IsZero(s.growth_percentage)

----------------------------------------------------------------------------
(* Claims about the tax calculator *)

\* The part of a taxable income that lies inside bracket b
PortionInside(taxable, b) == Max(0, Min(taxable, b.upper) - b.lower)

RECURSIVE MarginalSum(_, _)
\* The sum over the first k brackets of rate x portion inside, in cents
MarginalSum(taxable, k) ==
    IF k = 0 THEN 0
    ELSE MarginalSum(taxable, k - 1)
            + federal_brackets[k].rate
                * PortionInside(taxable, federal_brackets[k])

\* The taxable income of the call at hand: max(0, income - deduction), the
\* deduction the standard one (13,850) when none is supplied
TaxableOfCall ==
    Max(0, tcall.annual_income
            - (IF tcall.deductions = None THEN 13850 ELSE tcall.deductions.v))

\* C18: calculate_federal_income_tax returns the sum over the ascending
\* brackets of rate x (portion of taxable income inside the bracket), taxable
\* income being max(0, income - deduction) and the deduction the standard one
\* when none is supplied; taxable income exactly at a bracket's upper bound
\* is taxed entirely in the brackets up to it (taxable 11,000 gives 1,100).
C18_FederalTaxIsMarginal ==
    TaxDone("calculate_federal_income_tax") =>
        /\ tret.value = MarginalSum(TaxableOfCall, Len(federal_brackets))
        /\ \A k \in 1..Len(federal_brackets) :
              (TaxableOfCall = federal_brackets[k].upper) =>
                  tret.value = MarginalSum(TaxableOfCall, k)
        /\ (TaxableOfCall = 11000) => tret.value = ToCents(1100)

\* C18 witness: an income of 24,850 with the standard deduction: the taxable
\* income is 11,000 and the tax 1,100
C18_Witness ==
    /\ TaxDone("calculate_federal_income_tax")
    /\ tcall.deductions = None
    /\ TaxableOfCall = 11000
    /\ tret.value = ToCents(1100)

\* A Roth call has returned
RothDone ==
    /\ TaxDone("calculate_retirement_contribution_tax_savings")
    /\ IsRoth(tcall.retirement_account_type)

\* IRA limit x (phaseout - income) / (phaseout - limit), in dollars
PhasedCap(income) == Frac(6500 * (228000 - income), 228000 - 153000)

\* min(proposed, cap)
LesserOf(proposed, cap) ==
    IF FracLE(Whole(proposed), cap) THEN Whole(proposed) ELSE cap

C20_NegativeInputRejected ==
    (/\ tpc = "done"
     /\ \/ tcall.annual_income < 0
        \/ /\ tcall.op = "calculate_retirement_contribution_tax_savings"
           /\ tcall.contribution < 0
        \/ /\ tcall.op = "calculate_monthly_take_home_pay"
           /\ tcall.retirement_contribution < 0)
        => tret = Raise("InvalidTaxInput")

----------------------------------------------------------------------------
(* Claims about capital gains, the month of the path simulator and the     *)
(* tax projection                                                          *)

\* The capital-gains brackets whose lower bound is strictly below the income
BracketsBelow(income) ==
    {k \in 1..Len(capital_gains_brackets) :
        capital_gains_brackets[k].lower < income}

\* The rate, in percent, of the highest of them; 0 when there is none
FlatRate(income) ==
    IF BracketsBelow(income) = {} THEN 0
    ELSE capital_gains_brackets[SetMax(BracketsBelow(income))].rate

\* C21: calculate_capital_gains_tax returns the full gains times the flat
\* rate of the highest capital-gains bracket whose lower bound is strictly
\* below the ordinary income (0%, 15% or 20%; 0% for an income of 0 and for
\* one of exactly 44,625), plus 3.8% of the gains exactly when the income is
\* strictly above 200,000.  (Gains in cents, taxes in thousandths of a cent.)
C21_CapitalGainsFlatRate ==
    TaxDone("calculate_capital_gains_tax") =>
        LET gains == ToCents(tcall.capital_gains)
            income == tcall.annual_income
            flat == gains * FlatRate(income) * 10
            addition == tret.value - flat
        IN  /\ FlatRate(income) \in {0, 15, 20}
            /\ income \in {0, 44625} => FlatRate(income) = 0
            /\ income > 200000 => addition = gains * 38
            /\ ~(income > 200000) => addition = 0

\* A gain taxed at 15% with the 3.8% on top
C21_Witness ==
    /\ TaxDone("calculate_capital_gains_tax")
    /\ tcall.annual_income = 200001
    /\ tcall.capital_gains = 1000
    /\ tret.value = 18800000

\* The debt balance and the savings a month of a series starts from: the
\* profile's at the first month, the previous month's record after it
BalanceBefore(series, k) ==
    IF k = 1 THEN ToCents(Get0(sprofile, "total_debt").v)
    ELSE series[k - 1].debt

SavingsBefore(series, k) ==
    IF k = 1 THEN ToCents(sprofile.fields["current_savings"].v)
    ELSE series[k - 1].savings

\* interest = balance x (APR / 100) / 12
RuleInterest(balance) == (balance * DebtApr(sprofile)) \div 1200

\* payment = min(max(2% of the balance, 25) + extra, balance + interest)
RulePayment(balance, extra) ==
    LET floor == IF (balance * 2) \div 100 > 2500 THEN (balance * 2) \div 100
                 ELSE 2500
    IN  IF floor + extra < balance + RuleInterest(balance)
        THEN floor + extra
        ELSE balance + RuleInterest(balance)

MonthFollowsRule(series, k, extra) ==
    LET balance == BalanceBefore(series, k)
        payment == IF balance > 0 THEN RulePayment(balance, extra) ELSE 0
    IN  /\ balance > 0 =>
              series[k].debt = balance + RuleInterest(balance) - payment
        /\ series[k].savings =
              SavingsBefore(series, k)
                  + (series[k].income - series[k].expenses - payment)
                  + (SavingsBefore(series, k) * 2) \div 1200

\* C22: in each simulated month with debt balance > 0 the interest is
\* balance x (APR/100)/12, the payment is min(max(2% of the pre-interest
\* balance, 25) + extra_debt_payment, balance + interest), the new balance
\* is balance + interest - payment and the payment is taken out of the
\* month's cash flow into savings; in a month with balance 0 no payment is
\* made.
C22_MonthlyDebtRule ==
    (frame # NoFrame) =>
        \A k \in 1..Len(results) :
            MonthFollowsRule(results, k, frame.extra_debt_payment)

\* An improved series with a month paying 2% plus the extra, a month paying
\* the minimum of 25 plus the extra, the month paying off what is left, and
\* a month without debt after it
C22_Witness ==
    /\ frame # NoFrame
    /\ frame.extra_debt_payment > 0
    /\ \E k \in 1..Len(results) :
          LET balance == BalanceBefore(results, k)
          IN  /\ (balance * 2) \div 100 > 2500
              /\ results[k].debt < balance
              /\ results[k].debt > 0
    /\ \E k \in 1..Len(results) :
          LET balance == BalanceBefore(results, k)
          IN  /\ balance > 0
              /\ (balance * 2) \div 100 < 2500
              /\ results[k].debt > 0
    /\ \E k \in 1..Len(results) :
          /\ BalanceBefore(results, k) > 0
          /\ results[k].debt = 0
    /\ \E k \in 1..Len(results) : BalanceBefore(results, k) = 0

\* The sum of the profile's expense_* fields, in cents
ExpenseFieldsSum ==
    ToCents(FieldOr0(sprofile, "expense_debt_payments")
                + FieldOr0(sprofile, "expense_housing"))

\* The expense_reduction in force, in percent
ReductionInForce ==
    IF params.isNone THEN 10
    ELSE IF "expense_reduction" \in DOMAIN params.given
         THEN params.given["expense_reduction"]
         ELSE 10

ExpensesAre(series, amount) ==
    \A k \in 1..Len(series) : series[k].expenses = amount

\* C23: in the improved scenario the expense reduction is applied once, at
\* the start: every month of the horizon records (sum of the expense_*
\* fields) x (1 - expense_reduction), with no compounding and no change at a
\* year boundary; in the current scenario every month records the
\* unreduced sum.
C23_ExpenseReductionOnce ==
    LET reduced == (ExpenseFieldsSum * (100 - ReductionInForce)) \div 100
    IN  /\ ExpensesAre(current, ExpenseFieldsSum)
        /\ ExpensesAre(improved, reduced)
        /\ frame # NoFrame =>
              ExpensesAre(results, IF frame.scenario = "improved"
                                   THEN reduced ELSE ExpenseFieldsSum)

\* Both series returned over two years, the income having grown at the year
\* boundary, the improved expenses a fifth below the current ones
C23_Witness ==
    /\ BothReturned
    /\ Len(improved) = 24
    /\ improved[13].income > improved[12].income
    /\ ReductionInForce = 20
    /\ current[13].expenses = 80000
    /\ improved[13].expenses = 64000
    /\ improved[24].expenses = 64000

\* A series of simulate_investment_path, being built or returned, with the
\* call and the return series it belongs to
PathSeriesAtHand == ipc \in {"running", "returned", "compared"}

\* The weight of asset a in the allocation of the call, in percent
WeightOf(a) == risk_profiles[icall.risk_profile][a]

\* What month k records for asset a; 0 for an asset without a column
RecordedValue(series, k, a) ==
    IF a \in DOMAIN series[k].assets THEN series[k].assets[a] ELSE 0

\* The value asset a enters month k with
ValueBefore(series, k, a) ==
    IF k = 1 THEN (ToCents(icall.initial_investment) * WeightOf(a)) \div 100
    ELSE series[k - 1].assets[a]

\* C24: simulate_investment_path advances each asset class of nonzero
\* weight on its own: its value starts at initial_investment x weight and
\* each month becomes value x (1 + the asset's return of the month)
\* + monthly_contribution x weight, the contribution earning nothing in its
\* month; the total_value recorded for a month is the sum of the asset
\* values recorded for it.
C24_AssetsAdvanceIndependently ==
    PathSeriesAtHand =>
        \A k \in 1..Len(iresults) :
            /\ DOMAIN iresults[k].assets
                  = {a \in DOMAIN asset_classes : WeightOf(a) # 0}
            /\ \A a \in DOMAIN iresults[k].assets :
                  iresults[k].assets[a]
                      = (ValueBefore(iresults, k, a)
                            * (10000 + iframe.asset_returns[a][k])) \div 10000
                        + (ToCents(icall.monthly_contribution) * WeightOf(a))
                              \div 100
            /\ iresults[k].total_value
                  = RecordedValue(iresults, k, "savings_account")
                    + RecordedValue(iresults, k, "bonds")
                    + RecordedValue(iresults, k, "index_funds")
                    + RecordedValue(iresults, k, "stocks")
                    + RecordedValue(iresults, k, "crypto")

\* A year returned for an allocation that leaves assets out, with an initial
\* investment and a contribution, one asset losing value in a month in
\* which another gains
C24_Witness ==
    /\ ipc = "returned"
    /\ Len(iresults) = 12
    /\ icall.initial_investment > 0
    /\ icall.monthly_contribution > 0
    /\ \E a \in DOMAIN asset_classes : WeightOf(a) = 0
    /\ \E k \in 2..Len(iresults) :
          \E a, b \in DOMAIN iresults[k].assets :
              /\ iresults[k].assets[a] < iresults[k - 1].assets[a]
              /\ iresults[k].assets[b] > iresults[k - 1].assets[b]

\* The rows of a returned tax projection
ProjectionRows == tret.value

\* The balances year y of a projection starts from, in cents
TaxableBefore(y) ==
    IF y = 1 THEN ToCents(tcall.initial_investment)
    ELSE ProjectionRows[y - 1].taxable_investment_value

AdvantagedBefore(y) ==
    IF y = 1 THEN 0 ELSE ProjectionRows[y - 1].tax_advantaged_value

\* The tax the capital-gains/NIIT rule puts on gains (in cents) at an income
\* (in dollars), in thousandths of a cent
GainsTaxRule(gains, income) ==
    gains * (FlatRate(income) * 10 + (IF income > 200000 THEN 38 ELSE 0))

ProjectionYearFollowsRule(y) ==
    LET row == ProjectionRows[y]
        income == row.annual_income \div 100
        return_rate == tcall.investment_return_rate
        growth == (TaxableBefore(y) * return_rate) \div 100
        tax == GainsTaxRule(growth, income)
    IN  /\ row.year = y
        /\ y = 1 => row.annual_income = ToCents(tcall.annual_income)
        /\ y > 1 =>
              income * 100
                  = (ProjectionRows[y - 1].annual_income \div 100)
                        * (100 + tcall.yearly_income_growth)
        /\ row.retirement_contribution
              = (row.annual_income * tcall.retirement_contribution_percent)
                    \div 100
        /\ row.take_home_pay
              = row.annual_income - row.federal_tax - row.fica_tax
                    - row.state_tax - row.retirement_contribution
        /\ row.taxes_on_investments = tax
        /\ row.taxable_investment_value
              = (TaxableBefore(y) * (100 + return_rate)) \div 100
                    + row.take_home_pay \div 10
                    + ((0 - tax) \div 1000)
        /\ row.tax_advantaged_value
              = (AdvantagedBefore(y) * (100 + return_rate)) \div 100
                    + row.retirement_contribution
        /\ row.total_net_worth
              = row.taxable_investment_value + row.tax_advantaged_value

\* C25: in the multi-year tax projection, for each year y = 1..years: the
\* row's income is the start income x (1 + growth)^(y-1); the taxable
\* balance becomes balance x (1 + return rate) + 0.5 x 0.2 x the year's
\* annual take-home - the tax due on the year's growth (the capital-gains /
\* NIIT function, 2% of the balance taken as dividends); the tax-advantaged
\* balance becomes balance x (1 + return rate) + income x contribution
\* percent, untaxed; total_net_worth is the sum of the two balances.
C25_TaxProjection ==
    TaxDone("simulate_tax_impact_on_financial_path") =>
        /\ Len(ProjectionRows) = tcall.years
        /\ \A y \in 1..Len(ProjectionRows) : ProjectionYearFollowsRule(y)

\* Three years from an initial investment, the income growing past the
\* first capital-gains bound: the growth goes untaxed in the first year and
\* is taxed in the third
C25_Witness ==
    /\ TaxDone("simulate_tax_impact_on_financial_path")
    /\ tcall.years = 3
    /\ tcall.initial_investment > 0
    /\ tcall.retirement_contribution_percent > 0
    /\ ProjectionRows[1].taxes_on_investments = 0
    /\ ProjectionRows[3].taxes_on_investments > 0
    /\ ProjectionRows[3].annual_income > ProjectionRows[1].annual_income
    /\ ProjectionRows[3].tax_advantaged_value
          > ProjectionRows[2].tax_advantaged_value
                + ProjectionRows[3].retirement_contribution

\* Once a month of the series records a debt of 0, every later month does,
\* and its savings change by income - expenses plus the savings interest
DebtFreeStays(series) ==
    \A k \in 1..Len(series) :
        series[k].debt = 0 =>
            \A j \in (k + 1)..Len(series) :
                /\ series[j].debt = 0
                /\ series[j].savings - series[j - 1].savings
                      = series[j].income - series[j].expenses
                            + (series[j - 1].savings * 2) \div 1200

\* C26: being debt-free is absorbing in the path simulator: once a month's
\* recorded debt is 0 it is 0 in every later month of the series, and from
\* the following month on no debt payment is deducted: the month's savings
\* change is income - expenses plus the savings interest.
C26_DebtFreeIsAbsorbing ==
    /\ DebtFreeStays(results)
    /\ DebtFreeStays(current)
    /\ DebtFreeStays(improved)

\* Both series returned, each paying its debt off after the first month and
\* running on for months without debt
C26_Witness ==
    /\ BothReturned
    /\ \E k \in 2..(Len(current) - 2) :
          current[k - 1].debt > 0 /\ current[k].debt = 0
    /\ \E k \in 2..(Len(improved) - 2) :
          improved[k - 1].debt > 0 /\ improved[k].debt = 0

\* The recorded debt of a series falls from each month to the next, and
\* from the starting debt to the first month, while it is positive
DebtFallsWhilePositive(series) ==
    \A k \in 1..Len(series) :
        BalanceBefore(series, k) > 0 =>
            series[k].debt < BalanceBefore(series, k)

C28_TakeHomeAddsUp ==
    TaxDone("calculate_monthly_take_home_pay") =>
        LET pay == tret.value
        IN  /\ pay.total_tax
                  = pay.federal_income_tax + pay.social_security_tax
                        + pay.medicare_tax + pay.state_income_tax
            /\ pay.annual_take_home + pay.total_tax + pay.pretax_deductions
                  = pay.annual_gross_income
            /\ pay.monthly_take_home.n * 12
                  = pay.annual_take_home * pay.monthly_take_home.d

\* A breakdown with both pre-tax deductions, every tax positive and the
\* additional Medicare tax among them
C28_Witness ==
    /\ TaxDone("calculate_monthly_take_home_pay")
    /\ tcall.annual_income = 250000
    /\ tcall.retirement_contribution = 5000
    /\ tcall.other_pretax_deductions = 2000
    /\ tret.value.pretax_deductions = 700000
    /\ tret.value.federal_income_tax > 0
    /\ tret.value.state_income_tax > 0
    /\ tret.value.medicare_tax = 362500 + 45000
    /\ tret.value.annual_take_home > 0

----------------------------------------------------------------------------
(* Claims about the engine as a whole, checked under SpecEngine *)

\* A step leaves alone the profiles and parameters the components were
\* given and the settings of the engine's objects; it changes
\* state_tax_rate only as set_state_tax_rate does, changing nothing else.
\* (The tables of brackets, rates, limits, asset classes and allocations are
\* assigned in the constructors only and are constants here.)
ObjectsKeptByStep ==
    /\ UNCHANGED <<profile, sprofile, years, params, iyears>>
    /\ uprofile' # uprofile => uprofile = NoCall
    /\ state_tax_rate' # state_tax_rate =>
          /\ tpc = "ready"
          /\ UNCHANGED <<avars, svars, ivars, tpc, tcall, tret>>

\* A step leaves the process-wide random generator where it stands
GeneratorKeptByStep == UNCHANGED rng

\* The objects of the engine keep their state
ObjectsKeepTheirState == [][ObjectsKeptByStep]_vars

\* C29: no analysis, simulation, recommendation or tax computation changes
\* the profile it is given or the engine's configuration; the only
\* operation that changes state of the engine is set_state_tax_rate, and it
\* changes state_tax_rate only.
C29_OnlySetStateTaxRateChangesState ==
    [][ObjectsKeptByStep /\ GeneratorKeptByStep]_vars

----------------------------------------------------------------------------
(* A claim about the recommendation, checked under SpecInvest *)

\* recommend_risk_profile has returned for a profile whose age is a whole
\* number of years from 18 to 100
RecommendedForWholeAge ==
    /\ ipc = "recommended"
    /\ uprofile.age.tag = "num"
    /\ \E a \in 18..100 : uprofile.age.v = 10 * a

\* current_savings (0 when absent) against three months of expenses
SavingsCoverThreeMonths ==
    (IF uprofile.current_savings.tag = "num" THEN uprofile.current_savings.v
     ELSE 0) >= 3 * uprofile.expenses

\* C30: for integer ages 18..100, recommend_risk_profile returns
\* very_aggressive only if the risk tolerance is High, current_savings
\* >= 3 x the total monthly expenses and the age is <= 28; it returns
\* very_conservative only if current_savings < 3 x the total monthly
\* expenses.
C30_ExtremeTiers ==
    RecommendedForWholeAge =>
        /\ recommended = "very_aggressive" =>
              /\ uprofile.risk_tolerance = "High"
              /\ SavingsCoverThreeMonths
              /\ uprofile.age.v <= 10 * 28
        /\ recommended = "very_conservative" => ~SavingsCoverThreeMonths

\* very_aggressive at the last age that gets it
C30_Witness ==
    /\ RecommendedForWholeAge
    /\ uprofile.age.v = 10 * 28
    /\ uprofile.risk_tolerance = "High"
    /\ SavingsCoverThreeMonths
    /\ recommended = "very_aggressive"

====
